---------------------------- MODULE Spec2Model ----------------------------
(***************************************************************************)
(* HayateViewer page readiness pipeline.                                   *)
(*                                                                         *)
(* The module models, from the Python sources:                             *)
(*   - ImageCache   (L2, app/core/cache.py)  byte bounded LRU of bitmaps   *)
(*   - TextureCache (L1, app/core/cache.py)  pinned, distance evicting     *)
(*                                                                         *)
(* Each component has its own specification (SpecL2, SpecL1, ...): the     *)
(* variables of the other components stay at their constructed value.      *)
(***************************************************************************)
EXTENDS Integers, Sequences, FiniteSets, TLC

\* ------------------------------------------------------------------ bounds
\* pages of an opened path are 0..MaxPage
MaxPage == 3
\* cache sizes offered to ImageCache.set_max_size, in MB: 0..MaxCacheMB
MaxCacheMB == 2
\* number of texture ids glGenTextures hands out in one behaviour
MaxTexId == 4

\* ------------------------------------------------------- program constants
\* cache.py multiplies every *_mb setting by 1024 * 1024
BytesPerMB == 1048576

Pages == 0..MaxPage

Max(a, b) == IF a >= b THEN a ELSE b
Min(a, b) == IF a <= b THEN a ELSE b
Abs(x) == IF x < 0 THEN -x ELSE x
Range(q) == {q[i] : i \in 1..Len(q)}

VARIABLES
    \* ---- ImageCache (L2)
    ic_cache,            \* OrderedDict: sequence of [key, value], oldest first
    ic_current_size,     \* self.current_size
    ic_max_size,         \* self.max_size (effective capacity, bytes)
    ic_max_cache_size,   \* self.max_cache_size (configured capacity, bytes)
    ic_min_cache_size,   \* self.min_cache_size
    ic_dynamic_resizing, \* self.dynamic_resizing
    ic_raised,           \* TRUE once popitem() raised KeyError on an empty dict
    ic_last,             \* the last ImageCache call: [op, key, ok]
    \* ---- TextureCache (L1)
    tc_cache,            \* OrderedDict: sequence of [key, value], oldest first
    tc_max_size,         \* self.max_size (item count)
    tc_deleted_textures, \* self.deleted_textures
    tc_pinned_keys,      \* self.pinned_keys
    current_page_index,  \* app_state.current_page_index
    next_texture_id,     \* the next name glGenTextures returns
    pin_requested,       \* history: keys pin() was called on and not unpinned since
    tc_returned,         \* what the call just made returned, for get_deleted_textures
    \* ---- ApplicationController / AppState (UI thread)
    loader_paths,        \* the FileLoaders created so far: loader_paths[id] is its path
    ui_pc,               \* where the UI thread stands inside load_path
    current_file_path,   \* app_state.current_file_path
    app_file_loader,     \* app_state.file_loader: a FileLoader id, 0 for None
    \* ---- OpenGLView (UI thread)
    display_keys,        \* self.display_keys
    prepare_queue,       \* self.prepare_queue: sequence of [key, image]
    ui_events,           \* image_loaded signals queued to the UI thread
    \* ---- ImageLoaderWorker (loader thread) and the QThreadPool
    w_file_loader,       \* self.file_loader: a FileLoader id, 0 for None
    w_image_files,       \* len(self.image_files)
    w_high,              \* self.high_priority_queue
    w_low,               \* self.low_priority_queue
    w_processing,        \* self.processing_pages
    w_running,           \* self._running
    w_pnt_queued,        \* a queued invocation of process_next_task is pending
    w_pc,                \* where the loader thread stands inside a result handler
    w_cur,               \* the result that handler is working on
    w_emitted,           \* signals the step just taken has emitted
    w_did,               \* history: what the step just taken did, [op, a, b]
    pool,                \* LoadDecodeRunnables submitted and not yet delivered
    \* ---- FileLoader L3 cache and ExtractionThread
    fl_load_type,        \* FileLoader.load_type
    fl_cache,            \* FileLoader.cache: the entries it holds bytes for
    fl_status,           \* FileLoader._extraction_status
    et_pc,               \* ExtractionThread: not_started, running (in run) or finished
    et_status,           \* ExtractionThread._status
    et_running,          \* ExtractionThread._running
    et_next,             \* position of run() in the file list
    et_finished_queued,  \* finished_with_status queued to the UI thread, or "none"
    fetch,               \* the get_image_data calls: [pc, entry, priority, result, woken]
    \* ---- ExtractionThread, folder by folder
    et_folder_indices,   \* self.folder_indices: the first file of every folder
    et_total_files,      \* self.total_files = len(self.file_list)
    et_unextracted,      \* self.unextracted_folders: folder numbers, from 0
    et_current_page,     \* self.current_page_index (under page_index_lock)
    et_target,           \* run(): target_folder_idx, NoFolder outside a folder
    et_files,            \* run(): the files of files_in_folder not yet visited
    et_first_file_emitted,  \* run(): first_file_emitted
    et_attempted,        \* history: the members run() has visited, in order
    et_did,              \* history: what the extraction step just taken did
    \* ---- ThreadManager
    tm_prefetcher_thread,    \* self.prefetcher_thread: None or the state of the QThread
    tm_image_loader_thread,  \* self.image_loader_thread: None or the state of the QThread
    tm_extraction_thread,    \* self.extraction_thread: None or a thread (state in et_pc)
    tm_log,              \* history: the stop and wait calls of cleanup_threads, in order
    tm_cleanups,         \* history: the number of cleanup_threads calls made
    \* ---- AppState and ApplicationController, continued
    total_pages,         \* app_state.total_pages = len(app_state.image_files)
    is_content_loaded,   \* app_state.is_content_loaded
    is_loading,          \* controller._is_loading
    requested_page,      \* the page argument of the load_path call under way
    is_spread_view,      \* app_state.is_spread_view
    binding_direction,   \* app_state.binding_direction
    spread_view_first_page_single,
    file_loader_updated_count,  \* history: emissions of file_loader_updated
    error_dialog_count,  \* history: calls of show_error_dialog
    before_load,         \* history: the content when load_path was called
    pf_is_running,       \* PrefetcherWorker._is_running
    pf_inbox,            \* slot calls queued for the prefetcher thread
    cpu_max_prefetch_pages,  \* PrefetcherWorker.cpu_max_prefetch_pages
    gpu_max_prefetch_pages,  \* PrefetcherWorker.gpu_max_prefetch_pages
    gpu_prefetch_range,  \* app_state.gpu_prefetch_range
    w_inbox,             \* slot calls the prefetcher queued for the loader thread
    decoding_workers,    \* settings 'parallel_decoding_workers'
    settings,            \* Settings.settings: the two prefetch radii
    dialog,              \* the SettingsDialog: its two spin boxes, or closed
    is_first_image_handled,  \* UIManager.is_first_image_handled
    is_first_image_ready,    \* controller._is_first_image_ready
    first_prepared,      \* history: page of the first texture_prepared of a load
    pf_last,             \* history: the last on_page_index_changed and what it left
    \* ---- PrefetcherWorker
    calc                 \* a call of _calculate_pages_for_prefetch: arguments, result

varsL2 == <<ic_cache, ic_current_size, ic_max_size, ic_max_cache_size,
            ic_min_cache_size, ic_dynamic_resizing, ic_raised, ic_last>>

\* =====================================================================
\*  ImageCache (L2)
\* =====================================================================

\* A decoded bitmap: the loader it was decoded from and len(value.tobytes()).
Bitmap(src, size) == [src |-> src, size |-> size]

\* sizes of the bitmaps the decoder produces (bytes)
BitmapSizes == {BytesPerMB \div 2, BytesPerMB, BytesPerMB + BytesPerMB \div 2}

RECURSIVE SumSizes(_)
SumSizes(c) == IF c = <<>> THEN 0 ELSE Head(c).value.size + SumSizes(Tail(c))

KeysOf(c) == {c[i].key : i \in 1..Len(c)}

HasKey(c, k) == \E i \in 1..Len(c) : c[i].key = k

IndexOf(c, k) == CHOOSE i \in 1..Len(c) : c[i].key = k

DelKey(c, k) == SelectSeq(c, LAMBDA e : e.key # k)

\* a lookup that leaves the order alone
MoveToEndKeepsPlace(c, k) == c

\* OrderedDict.move_to_end(key)
MoveToEnd(c, k) == IF HasKey(c, k) THEN Append(DelKey(c, k), c[IndexOf(c, k)]) ELSE c

\* `while self.current_size + extra > self.max_size: popitem(last=False)`
\* (extra = 0 in set_max_size / adjust_cache_size).  popitem() on an empty
\* OrderedDict raises KeyError, which leaves the loop.
\* a cache that never evicts
L2EvictNothing(c, cur, extra, limit) == [cache |-> c, size |-> cur, raised |-> FALSE]

RECURSIVE L2EvictLRU(_, _, _, _)
L2EvictLRU(c, cur, extra, limit) ==
    IF cur + extra > limit
    THEN IF c = <<>>
         THEN [cache |-> c, size |-> cur, raised |-> TRUE]
         ELSE L2EvictLRU(Tail(c), cur - Head(c).value.size, extra, limit)
    ELSE [cache |-> c, size |-> cur, raised |-> FALSE]

\* ImageCache.__init__ without the adjust_cache_size() call
InitL2(minMB, maxMB, dyn) ==
    /\ ic_cache = <<>>
    /\ ic_current_size = 0
    /\ ic_min_cache_size = minMB * BytesPerMB
    /\ ic_max_cache_size = maxMB * BytesPerMB
    /\ ic_max_size = maxMB * BytesPerMB
    /\ ic_dynamic_resizing = dyn
    /\ ic_raised = FALSE
    /\ ic_last = [op |-> "init", key |-> -1, ok |-> TRUE]

\* ImageCache.get: a hit promotes the key to most recently used
ImageCacheGet(key) ==
    /\ ic_cache' = MoveToEnd(ic_cache, key)
    /\ ic_last' = [op |-> "get", key |-> key, ok |-> HasKey(ic_cache, key)]
    /\ UNCHANGED <<ic_current_size, ic_max_size, ic_max_cache_size,
                   ic_min_cache_size, ic_dynamic_resizing, ic_raised>>

\* an insert without the test of the bitmap against the capacity
image_cache_set_unlimited(key, value) ==
    LET old_size == IF HasKey(ic_cache, key)
                    THEN ic_cache[IndexOf(ic_cache, key)].value.size ELSE 0
        r == L2EvictLRU(DelKey(ic_cache, key), ic_current_size - old_size,
                        value.size, ic_max_size)
    IN  IF r.raised
        THEN [cache |-> r.cache, size |-> r.size, raised |-> TRUE, ok |-> FALSE]
        ELSE [cache |-> Append(r.cache, [key |-> key, value |-> value]),
              size |-> r.size + value.size, raised |-> FALSE, ok |-> TRUE]

\* an insert that does not take the bytes of the bitmap it replaces off
\* current_size (a mutant)
image_cache_set_counts_twice(key, value) ==
    LET r == L2EvictLRU(DelKey(ic_cache, key), ic_current_size, value.size, ic_max_size)
    IN  IF value.size > ic_max_size
        THEN [cache |-> ic_cache, size |-> ic_current_size, raised |-> FALSE, ok |-> FALSE]
        ELSE IF r.raised
        THEN [cache |-> r.cache, size |-> r.size, raised |-> TRUE, ok |-> FALSE]
        ELSE [cache |-> Append(r.cache, [key |-> key, value |-> value]),
              size |-> r.size + value.size, raised |-> FALSE, ok |-> TRUE]

\* the body of ImageCache.set: the fields it leaves and whether it stored
\* (ok: the lines that store and emit page_cached were reached)
image_cache_set(key, value) ==
    LET image_size == value.size
        old_size   == IF HasKey(ic_cache, key)
                      THEN ic_cache[IndexOf(ic_cache, key)].value.size ELSE 0
        r == L2EvictLRU(DelKey(ic_cache, key), ic_current_size - old_size,
                        image_size, ic_max_size)
    IN  IF image_size > ic_max_size
        THEN [cache |-> ic_cache, size |-> ic_current_size, raised |-> FALSE, ok |-> FALSE]
        ELSE IF r.raised
        THEN [cache |-> r.cache, size |-> r.size, raised |-> TRUE, ok |-> FALSE]
        ELSE [cache |-> Append(r.cache, [key |-> key, value |-> value]),
              size |-> r.size + image_size, raised |-> FALSE, ok |-> TRUE]

\* ImageCache.set, as a caller inside the application runs it
ImageCacheStore(key, value) ==
    LET r == image_cache_set(key, value)
    IN  /\ ic_cache' = r.cache
        /\ ic_current_size' = r.size
        /\ ic_raised' = (ic_raised \/ r.raised)
        /\ UNCHANGED <<ic_max_size, ic_max_cache_size, ic_min_cache_size,
                       ic_dynamic_resizing>>

\* ImageCache.set
ImageCacheSet(key, value) ==
    /\ ImageCacheStore(key, value)
    /\ ic_last' = [op |-> "set", key |-> key, ok |-> image_cache_set(key, value).ok]

\* ImageCache.evict_outside_range: keeps the keys with start <= k < end
ImageCacheEvictOutsideRange(start, end) ==
    LET keep(e) == start <= e.key /\ e.key < end
        gone == SelectSeq(ic_cache, LAMBDA e : ~keep(e))
    IN  /\ ic_cache' = SelectSeq(ic_cache, keep)
        /\ ic_current_size' = ic_current_size - SumSizes(gone)
        /\ ic_last' = [op |-> "evict_outside_range", key |-> start, ok |-> gone # <<>>]
        /\ UNCHANGED <<ic_max_size, ic_max_cache_size, ic_min_cache_size,
                       ic_dynamic_resizing, ic_raised>>

\* ImageCache.clear
ImageCacheClear ==
    /\ ic_cache' = <<>>
    /\ ic_current_size' = IF Len(ic_cache) > 0 THEN 0 ELSE ic_current_size
    /\ ic_last' = [op |-> "clear", key |-> -1, ok |-> Len(ic_cache) > 0]
    /\ UNCHANGED <<ic_max_size, ic_max_cache_size, ic_min_cache_size,
                   ic_dynamic_resizing, ic_raised>>

\* ImageCache.__delitem__
ImageCacheDelItem(key) ==
    /\ ic_cache' = DelKey(ic_cache, key)
    /\ ic_current_size' = IF HasKey(ic_cache, key)
                          THEN ic_current_size - ic_cache[IndexOf(ic_cache, key)].value.size
                          ELSE ic_current_size
    /\ ic_last' = [op |-> "delitem", key |-> key, ok |-> HasKey(ic_cache, key)]
    /\ UNCHANGED <<ic_max_size, ic_max_cache_size, ic_min_cache_size,
                   ic_dynamic_resizing, ic_raised>>

\* ImageCache.set_max_size(new_size_mb)
ImageCacheSetMaxSize(new_size_mb) ==
    LET new_max == IF ~ic_dynamic_resizing THEN new_size_mb * BytesPerMB ELSE ic_max_size
        r == L2EvictLRU(ic_cache, ic_current_size, 0, new_max)
    IN  /\ ic_max_cache_size' = new_size_mb * BytesPerMB
        /\ ic_max_size' = new_max
        /\ ic_cache' = r.cache
        /\ ic_current_size' = r.size
        /\ ic_raised' = (ic_raised \/ r.raised)
        /\ ic_last' = [op |-> "set_max_size", key |-> new_size_mb, ok |-> ~r.raised]
        /\ UNCHANGED <<ic_min_cache_size, ic_dynamic_resizing>>

\* ImageCache.adjust_cache_size, psutil reporting available_memory bytes free
ImageCacheAdjustCacheSize(available_memory) ==
    LET target_size  == available_memory \div 2
        new_max_size == Max(ic_min_cache_size, Min(target_size, ic_max_cache_size))
        r == L2EvictLRU(ic_cache, ic_current_size, 0, new_max_size)
    IN  IF ~ic_dynamic_resizing
        THEN /\ ic_last' = [op |-> "adjust_cache_size", key |-> -1, ok |-> FALSE]
             /\ UNCHANGED <<ic_cache, ic_current_size, ic_max_size, ic_max_cache_size,
                            ic_min_cache_size, ic_dynamic_resizing, ic_raised>>
        ELSE /\ ic_max_size' = new_max_size
             /\ ic_cache' = r.cache
             /\ ic_current_size' = r.size
             /\ ic_raised' = (ic_raised \/ r.raised)
             /\ ic_last' = [op |-> "adjust_cache_size", key |-> -1, ok |-> ~r.raised]
             /\ UNCHANGED <<ic_max_cache_size, ic_min_cache_size, ic_dynamic_resizing>>


\* =====================================================================
\*  TextureCache (L1)
\* =====================================================================

varsL1 == <<tc_cache, tc_max_size, tc_deleted_textures, tc_pinned_keys,
            current_page_index, next_texture_id, tc_returned>>

\* opened paths
Paths == {"A", "B"}

\* The texture key f"{path}::{index}" (opengl_view.py:114, prefetcher.py:155)
TexKey(path, index) == [path |-> path, page |-> index]

\* int(str(k).split('::')[-1]): the page index of a texture key
PageIndexOf(k) == k.page

\* get_distance(k) in _evict_if_needed
get_distance(k, current_page) == Abs(PageIndexOf(k) - current_page)

\* the value stored for a key: {'texture_id': id, 'width': w, 'height': h}
Texture(id, src) == [texture_id |-> id, src |-> src]

\* a cache whose eviction ignores the pins
unpinned_keys_ignoring_pins(c, pinned) == c

\* [k for k in self.cache if k not in self.pinned_keys]
unpinned_keys(c, pinned) == SelectSeq(c, LAMBDA e : e.key \notin pinned)

\* plain LRU instead of the distance policy
farthest_key_lru(c, current_page) == c[1].key

\* max(valid_keys, key=get_distance): the first entry of maximal distance
farthest_key(c, current_page) ==
    LET i == CHOOSE i \in 1..Len(c) :
               /\ \A j \in 1..Len(c) :
                     get_distance(c[j].key, current_page) <= get_distance(c[i].key, current_page)
               /\ \A j \in 1..(i - 1) :
                     get_distance(c[j].key, current_page) < get_distance(c[i].key, current_page)
    IN  c[i].key

\* TextureCache._evict_if_needed: returns the cache and the deletion list
RECURSIVE evict_if_needed(_, _, _, _, _)
evict_if_needed(c, pinned, max_size, current_page, deleted) ==
    IF Len(c) > max_size
    THEN LET unpinned == unpinned_keys(c, pinned)
         IN  IF unpinned = <<>>
             THEN [cache |-> c, deleted |-> deleted]
             ELSE LET k == farthest_key(unpinned, current_page)
                  IN  evict_if_needed(DelKey(c, k), pinned, max_size, current_page,
                                      Append(deleted, c[IndexOf(c, k)].value.texture_id))
    ELSE [cache |-> c, deleted |-> deleted]

\* TextureCache.__init__(max_size, app_state)
InitL1(max_size) ==
    /\ tc_cache = <<>>
    /\ tc_max_size = max_size
    /\ tc_deleted_textures = <<>>
    /\ tc_pinned_keys = {}
    /\ next_texture_id = 1
    /\ tc_returned = <<>>


\* TextureCache.pin
TextureCachePin(key) ==
    /\ tc_pinned_keys' = IF HasKey(tc_cache, key)
                         THEN tc_pinned_keys \cup {key} ELSE tc_pinned_keys
    /\ tc_returned' = <<>>
    /\ UNCHANGED <<tc_cache, tc_max_size, tc_deleted_textures,
                   next_texture_id>>

\* TextureCache.unpin
TextureCacheUnpin(key) ==
    /\ tc_pinned_keys' = tc_pinned_keys \ {key}
    /\ tc_returned' = <<>>
    /\ UNCHANGED <<tc_cache, tc_max_size, tc_deleted_textures,
                   next_texture_id>>

\* TextureCache.unpin_all
TextureCacheUnpinAll ==
    /\ tc_pinned_keys' = {}
    /\ tc_returned' = <<>>
    /\ UNCHANGED <<tc_cache, tc_max_size, tc_deleted_textures,
                   next_texture_id>>

\* TextureCache.get: a hit promotes the key to most recently used
TextureCacheGet(key) ==
    /\ tc_cache' = MoveToEnd(tc_cache, key)
    /\ tc_returned' = <<>>
    /\ UNCHANGED <<tc_max_size, tc_deleted_textures, tc_pinned_keys, next_texture_id>>

\* TextureCache.set
TextureCacheSet(key, value) ==
    LET r == evict_if_needed(Append(tc_cache, [key |-> key, value |-> value]),
                             tc_pinned_keys, tc_max_size, current_page_index,
                             tc_deleted_textures)
    IN  /\ IF HasKey(tc_cache, key)
           THEN /\ tc_cache' = Append(DelKey(tc_cache, key), [key |-> key, value |-> value])
                /\ UNCHANGED tc_deleted_textures
           ELSE /\ tc_cache' = r.cache
                /\ tc_deleted_textures' = r.deleted
        /\ tc_returned' = <<>>
        /\ UNCHANGED <<tc_max_size, tc_pinned_keys>>

\* TextureCache.evict_outside_range: drops the non-pinned keys outside [start, end)
TextureCacheEvictOutsideRange(start, end) ==
    LET evict(e) == /\ e.key \notin tc_pinned_keys
                    /\ ~(start <= PageIndexOf(e.key) /\ PageIndexOf(e.key) < end)
        gone == SelectSeq(tc_cache, evict)
    IN  /\ tc_cache' = SelectSeq(tc_cache, LAMBDA e : ~evict(e))
        /\ tc_deleted_textures' =
               tc_deleted_textures \o [i \in 1..Len(gone) |-> gone[i].value.texture_id]
        /\ tc_returned' = <<>>
        /\ UNCHANGED <<tc_max_size, tc_pinned_keys, next_texture_id>>

\* TextureCache.set_max_size
TextureCacheSetMaxSize(new_size) ==
    LET r == evict_if_needed(tc_cache, tc_pinned_keys, new_size, current_page_index,
                             tc_deleted_textures)
    IN  /\ tc_max_size' = new_size
        /\ tc_cache' = r.cache
        /\ tc_deleted_textures' = r.deleted
        /\ tc_returned' = <<>>
        /\ UNCHANGED <<tc_pinned_keys, next_texture_id>>

\* TextureCache.get_deleted_textures: returns the list and empties it
TextureCacheGetDeletedTextures ==
    /\ tc_returned' = tc_deleted_textures
    /\ tc_deleted_textures' = <<>>
    /\ UNCHANGED <<tc_cache, tc_max_size, tc_pinned_keys, next_texture_id>>

\* TextureCache.clear: does nothing on an empty cache
TextureCacheClear ==
    /\ IF Len(tc_cache) > 0
       THEN /\ tc_deleted_textures' =
                   tc_deleted_textures \o [i \in 1..Len(tc_cache) |-> tc_cache[i].value.texture_id]
            /\ tc_cache' = <<>>
            /\ tc_pinned_keys' = {}
               ELSE UNCHANGED <<tc_cache, tc_deleted_textures, tc_pinned_keys>>
    /\ tc_returned' = <<>>
    /\ UNCHANGED <<tc_max_size, next_texture_id>>


\* =====================================================================
\*  ImageLoaderWorker (app/io/loader.py)
\* =====================================================================

varsWorker == <<w_file_loader, w_image_files, w_high, w_low, w_processing,
                w_running, w_pnt_queued, w_pc, w_cur, w_emitted, w_did, pool>>

\* app/constants.py
PRIORITY_DISPLAY == 1
PRIORITY_PREFETCH == 10
\* the priority OpenGLView.displayImage requests a page with
PRIORITY_VIEW == 0

\* settings 'parallel_decoding_workers' where the claims do not vary it
parallel_decoding_workers == 1

\* FileLoader.get_image_list(): the number of images under a path
ImageCount(path) == CASE path = "E" -> 0
                      []   path = "F" -> 4
                      []   path = "L" -> 8
                      []   OTHER -> 2

\* os.path.exists(path) in FileLoader.__init__: "X" names nothing
PathExists(path) == path # "X"

\* the bytes of every decoded page
DecodedSize == BytesPerMB \div 2

\* FileLoader.path of the loader with this id
PathOf(id) == loader_paths[id]

LoadTask(priority, page_index) == [priority |-> priority, page_index |-> page_index]

\* LoadDecodeRunnable(file_loader, filepath, index, signals, priority)
Runnable(index, loader_id, priority) ==
    [index |-> index, loader_id |-> loader_id, priority |-> priority]

\* history values of w_did
NothingDone == [op |-> "none", a |-> 0, b |-> 0]
Dropped(loader_id, index) == [op |-> "dropped", a |-> loader_id, b |-> index]
Dispatched(high, low) == [op |-> "process_next_task", a |-> Len(high), b |-> Len(low)]

\* no result in hand
NoResult == [index |-> -1, image |-> "none", error |-> FALSE]

\* the fields of the worker that add_task and set_file_loader work on
Worker ==
    [file_loader |-> w_file_loader, image_files |-> w_image_files, high |-> w_high,
     low |-> w_low, processing |-> w_processing, pnt |-> w_pnt_queued]

WorkerBecomes(w) ==
    /\ w_file_loader' = w.file_loader
    /\ w_image_files' = w.image_files
    /\ w_high' = w.high
    /\ w_low' = w.low
    /\ w_processing' = w.processing
    /\ w_pnt_queued' = w.pnt

in_queue(q, page_index) == \E i \in 1..Len(q) : q[i].page_index = page_index

\* ImageLoaderWorker.add_task on worker fields w, with the L2 content cache
add_task(w, cache, page_index, priority) ==
    IF \/ ~w_running
       \/ w.image_files = 0
       \/ ~(0 <= page_index /\ page_index < w.image_files)
    THEN w
    ELSE IF \/ HasKey(cache, page_index)
            \/ page_index \in w.processing
            \/ in_queue(w.high, page_index)
            \/ in_queue(w.low, page_index)
    THEN w
    ELSE [w EXCEPT
            !.high = IF priority = PRIORITY_DISPLAY
                     THEN Append(@, LoadTask(priority, page_index)) ELSE @,
            !.low  = IF priority = PRIORITY_DISPLAY
                     THEN @ ELSE Append(@, LoadTask(priority, page_index)),
            !.pnt  = TRUE]

\* ImageLoaderWorker.set_file_loader on worker fields w
set_file_loader(w, id, path) ==
    [w EXCEPT !.file_loader = id, !.image_files = ImageCount(path),
              !.high = <<>>, !.low = <<>>, !.processing = {}]

\* the lane process_next_task pops from: a mutant that prefers the low lane
next_lane_low_first(high, low) ==
    IF low # <<>> THEN "low" ELSE IF high # <<>> THEN "high" ELSE "none"

\* the lane process_next_task pops from
next_lane(high, low) ==
    IF high # <<>> THEN "high" ELSE IF low # <<>> THEN "low" ELSE "none"

\* process_next_task: max_workers
max_workers == IF decoding_workers <= 0 THEN 1 ELSE decoding_workers

\* a process_next_task that dispatches nothing
process_loop_idle(high, low, processing, started) ==
    [high |-> high, low |-> low, processing |-> processing, started |-> started]

RECURSIVE process_loop(_, _, _, _)
\* the while loop of process_next_task with load_page_data: the lanes, the
\* processing pages and the runnables started so far
process_loop(high, low, processing, started) ==
    LET lane == next_lane(high, low)
        task == IF lane = "high" THEN Head(high) ELSE Head(low)
        h    == IF lane = "high" THEN Tail(high) ELSE high
        l    == IF lane = "low" THEN Tail(low) ELSE low
        ok   == w_running /\ w_image_files # 0
                /\ 0 <= task.page_index /\ task.page_index < w_image_files
    IN  IF Cardinality(processing) >= max_workers \/ lane = "none"
        THEN [high |-> high, low |-> low, processing |-> processing, started |-> started]
        ELSE IF task.page_index \in processing
        THEN process_loop(h, l, processing, started)
        ELSE process_loop(h, l, processing \cup {task.page_index},
                 IF ok THEN Append(started,
                                Runnable(task.page_index, w_file_loader, task.priority))
                       ELSE started)

\* image_loaded signals the worker may have queued to the UI thread
MaxUiEvents == 1

\* ImageLoaderWorker.process_next_task, invoked through the loader thread's queue
ProcessNextTask ==
    LET r == process_loop(w_high, w_low, w_processing, <<>>)
    IN  /\ w_pc = "idle"
        /\ w_pnt_queued
        /\ w_pnt_queued' = FALSE
        /\ w_did' = Dispatched(w_high, w_low)
        /\ IF w_running
           THEN /\ w_high' = r.high
                /\ w_low' = r.low
                /\ w_processing' = r.processing
                /\ pool' = pool \o r.started
           ELSE UNCHANGED <<w_high, w_low, w_processing, pool>>
        /\ w_emitted' = {}
        /\ UNCHANGED <<w_file_loader, w_image_files, w_running, w_pc, w_cur>>

\* the prefetcher's prefetch_request_generated(page, PRIORITY_PREFETCH) delivered
\* to add_task on the loader thread, for a page that is a gap of L2
AddTaskFromPrefetcher(page_index) ==
    /\ w_pc = "idle"
    /\ app_file_loader # 0
    /\ page_index < ImageCount(PathOf(app_file_loader))
    /\ ~HasKey(ic_cache, page_index)
    /\ WorkerBecomes(add_task(Worker, ic_cache, page_index, PRIORITY_PREFETCH))
    /\ UNCHANGED <<w_running, w_pc, w_cur, pool>>

\* the generation check with the comparison of the ids left out (a mutant)
is_obsolete_unchecked(loader_id) == ~w_running \/ w_file_loader = 0

\* _on_runnable_finished / _on_runnable_error: the result is of an obsolete loader
is_obsolete(loader_id) == ~w_running \/ w_file_loader = 0 \/ w_file_loader # loader_id

\* a LoadDecodeRunnable ends and its finished / error signal reaches
\* _on_runnable_finished / _on_runnable_error: the generation check.
\* outcome is "image" (decoded), "none" (finished with None) or "error"
DeliverResult(i, outcome) ==
    LET r     == pool[i]
        stale == is_obsolete(r.loader_id)
    IN  /\ w_pc = "idle"
        /\ Len(ui_events) < MaxUiEvents
        /\ pool' = [j \in 1..(Len(pool) - 1) |-> IF j < i THEN pool[j] ELSE pool[j + 1]]
        /\ IF stale
           THEN /\ w_processing' = w_processing \ {r.index}
                /\ w_pnt_queued' = TRUE
                /\ w_emitted' = {}
                /\ w_did' = Dropped(r.loader_id, r.index)
                /\ UNCHANGED <<w_pc, w_cur>>
           ELSE /\ w_pc' = "decoded"
                /\ w_cur' = [index |-> r.index,
                             image |-> IF outcome = "image" THEN PathOf(r.loader_id)
                                       ELSE "none",
                             error |-> outcome = "error"]
                /\ w_emitted' = IF outcome = "error" THEN {"error_occurred"} ELSE {}
                /\ w_did' = NothingDone
                /\ UNCHANGED <<w_processing, w_pnt_queued>>
        /\ UNCHANGED <<w_file_loader, w_image_files, w_high, w_low, w_running>>

\* the rest of the result handler: _on_image_decoded, then process_next_task
\* is queued
OnImageDecoded ==
    LET index   == w_cur.index
        invalid == \/ w_file_loader = 0
                   \/ w_image_files = 0
                   \/ ~(0 <= index /\ index < w_image_files)
    IN  /\ w_pc = "decoded"
        /\ w_pc' = "idle"
        /\ w_cur' = NoResult
        /\ w_pnt_queued' = TRUE
        /\ w_did' = NothingDone
        /\ IF invalid
           THEN /\ w_emitted' = {}
                /\ UNCHANGED <<varsL2, ui_events, w_processing>>
           ELSE /\ w_processing' = w_processing \ {index}
                /\ IF w_cur.image = "none"
                   THEN /\ w_emitted' = {}
                        /\ UNCHANGED <<varsL2, ui_events>>
                   ELSE /\ ImageCacheStore(index, Bitmap(w_cur.image, DecodedSize))
                        /\ UNCHANGED ic_last
                        /\ IF image_cache_set(index, Bitmap(w_cur.image, DecodedSize)).raised
                           THEN /\ w_emitted' = {"error_occurred"}
                                /\ UNCHANGED ui_events
                           ELSE /\ w_emitted' = {"image_loaded"}
                                /\ ui_events' = Append(ui_events,
                                       [image |-> w_cur.image, index |-> index,
                                        cached |-> image_cache_set(index,
                                            Bitmap(w_cur.image, DecodedSize)).ok])
        /\ UNCHANGED <<w_file_loader, w_image_files, w_high, w_low, w_running, pool>>

\* =====================================================================
\*  FileLoader.get_image_data and ExtractionThread (app/io)
\* =====================================================================

varsFetch == <<fl_load_type, fl_cache, fl_status, et_pc, et_status, et_running,
               et_next, et_finished_queued, fetch>>

\* the last entry of the archive (entries are 0..MaxEntry)
MaxEntry == 1
\* threads of the pool that may be inside get_image_data at once
MaxFetchers == 2

Entries == 0..MaxEntry
Fetchers == 1..MaxFetchers

\* archive.py ExtractionStatus
ExtractionStatus == {"PENDING", "RUNNING", "COMPLETED", "FAILED", "CANCELLED"}

\* a thread that is not inside get_image_data
NoFetch == [pc |-> "idle", entry |-> -1, priority |-> -1, result |-> "none",
            woken |-> FALSE]

\* get_image_data: the test that makes the loop wait on the L3 condition
should_wait(priority) ==
    /\ fl_load_type = "archive"
    /\ fl_status = "RUNNING"
    /\ priority = PRIORITY_DISPLAY

\* the early return of a prefetch on an archive, left out (a mutant)
prefetch_miss_returns_never(priority) == FALSE

\* get_image_data: a prefetch on an archive returns None on a miss
prefetch_miss_returns(priority) ==
    priority = PRIORITY_PREFETCH /\ fl_load_type = "archive"

\* get_image_data, one pass of the loop under cache_lock for a call that has
\* just locked (pc idle or woken): return the L3 bytes, wait, return None, or
\* leave the loop for the fallback read
fetch_loop(c) ==
    IF c.entry \in fl_cache
    THEN [c EXCEPT !.pc = "done", !.result = "l3", !.woken = FALSE]
    ELSE IF should_wait(c.priority)
    THEN [c EXCEPT !.pc = "waiting", !.woken = FALSE]
    ELSE IF prefetch_miss_returns(c.priority)
    THEN [c EXCEPT !.pc = "done", !.result = "none", !.woken = FALSE]
    ELSE [c EXCEPT !.pc = "fallback", !.woken = FALSE]

\* FileLoader.get_image_data(filepath, priority) is called on thread f
GetImageData(f, entry, priority) ==
    /\ fetch[f].pc = "idle"
    /\ fetch' = [fetch EXCEPT ![f] =
           fetch_loop([pc |-> "idle", entry |-> entry, priority |-> priority,
                       result |-> "none", woken |-> FALSE])]
    /\ UNCHANGED <<fl_load_type, fl_cache, fl_status, et_pc, et_status, et_running,
                   et_next, et_finished_queued>>

\* cache_wait_condition.wait returns after a wakeAll: the loop runs again
GetImageDataWoken(f) ==
    /\ fetch[f].pc = "waiting"
    /\ fetch[f].woken
    /\ fetch' = [fetch EXCEPT ![f] = fetch_loop(fetch[f])]
    /\ UNCHANGED <<fl_load_type, fl_cache, fl_status, et_pc, et_status, et_running,
                   et_next, et_finished_queued>>

\* get_image_data past the lock: the read from the archive reader (stored in
\* L3 when it yields data) or from the file system; readable says whether the
\* read yields data
GetImageDataFallback(f, readable) ==
    /\ fetch[f].pc = "fallback"
    /\ fetch' = [fetch EXCEPT ![f].pc = "done",
                              ![f].result = IF readable THEN "read" ELSE "none"]
    /\ fl_cache' = IF fl_load_type = "archive" /\ readable
                   THEN fl_cache \cup {fetch[f].entry} ELSE fl_cache
    /\ UNCHANGED <<fl_load_type, fl_status, et_pc, et_status, et_running, et_next,
                   et_finished_queued>>

\* the caller (LoadDecodeRunnable.run) takes the result; the thread is free again
GetImageDataReturn(f) ==
    /\ fetch[f].pc = "done"
    /\ fetch' = [fetch EXCEPT ![f] = NoFetch]
    /\ UNCHANGED <<fl_load_type, fl_cache, fl_status, et_pc, et_status, et_running,
                   et_next, et_finished_queued>>

\* FileLoader.set_extraction_status
SetExtractionStatus(status) ==
    /\ fl_status' = status
    /\ UNCHANGED <<fl_load_type, fl_cache, et_pc, et_status, et_running, et_next,
                   et_finished_queued, fetch>>

\* ExtractionThread.run starts: only the thread's own status becomes RUNNING
ExtractionRunStart ==
    /\ fl_load_type = "archive"
    /\ et_pc = "not_started"
    /\ et_pc' = "running"
    /\ et_status' = "RUNNING"
    /\ UNCHANGED <<fl_load_type, fl_cache, fl_status, et_running, et_next,
                   et_finished_queued, fetch>>

\* ExtractionThread.run, one file of the (single) folder: skipped when cached,
\* else read and, when the read yields data, stored in L3 and wakeAll
ExtractionRunFile(readable) ==
    LET target_file == et_next
    IN  /\ et_pc = "running"
        /\ et_running
        /\ et_next <= MaxEntry
        /\ et_next' = et_next + 1
        /\ IF target_file \notin fl_cache /\ readable
           THEN /\ fl_cache' = fl_cache \cup {target_file}
                /\ fetch' = [f \in Fetchers |->
                                IF fetch[f].pc = "waiting"
                                THEN [fetch[f] EXCEPT !.woken = TRUE] ELSE fetch[f]]
           ELSE UNCHANGED <<fl_cache, fetch>>
        /\ UNCHANGED <<fl_load_type, fl_status, et_pc, et_status, et_running,
                       et_finished_queued>>

\* ExtractionThread.run ends: COMPLETED or CANCELLED, finished_with_status
\* is emitted (queued to the UI thread)
ExtractionRunEnd ==
    LET status == IF et_running THEN "COMPLETED" ELSE "CANCELLED"
    IN  /\ et_pc = "running"
        /\ ~et_running \/ et_next > MaxEntry
        /\ et_pc' = "finished"
        /\ et_status' = status
        /\ et_finished_queued' = status
        /\ UNCHANGED <<fl_load_type, fl_cache, fl_status, et_running, et_next, fetch>>

\* ExtractionThread.stop
ExtractionStop ==
    /\ et_pc = "running"
    /\ et_running
    /\ et_running' = FALSE
    /\ UNCHANGED <<fl_load_type, fl_cache, fl_status, et_pc, et_status, et_next,
                   et_finished_queued, fetch>>

\* ThreadManager._on_extraction_finished(status): the only place of the
\* application that sets the FileLoader's status
OnExtractionFinished ==
    /\ et_finished_queued # "none"
    /\ et_finished_queued' = "none"
    /\ fl_status' = et_finished_queued
    /\ UNCHANGED <<fl_load_type, fl_cache, et_pc, et_status, et_running, et_next, fetch>>

\* =====================================================================
\*  ExtractionThread, folder by folder (app/io/archive.py)
\* =====================================================================

varsExtract == <<et_folder_indices, et_total_files, et_unextracted, et_current_page,
                 et_target, et_files, et_first_file_emitted, et_attempted, et_did>>

\* the last file of the largest archive (files are 0..MaxFile)
MaxFile == 3

\* target_folder_idx while run() is not inside a folder, and the None that
\* _find_closest_folder_index returns
NoFolder == -2

\* float('inf')
float_inf == 1073741824

\* what an extraction step did: [op, file, woke]
NoExtraction == [op |-> "none", file |-> -1, woke |-> {}]

\* LoaderService._get_folder_start_indices for file lists of n files: the
\* first file of every folder, rising, the first of them 0
RECURSIVE StartsFrom(_, _)
StartsFrom(i, n) ==
    IF i >= n THEN {<<>>}
    ELSE LET rest == StartsFrom(i + 1, n)
         IN  rest \cup {<<i>> \o r : r \in rest}

FolderStartIndices(n) == {<<0>> \o r : r \in StartsFrom(1, n)}

\* the rising lists of folder numbers out of 0..(n - 1)
UnextractedLists(n) == StartsFrom(0, n)

\* start_page / end_page of archive.py:256-257 (folder numbers from 0)
folder_start(indices, folder_idx) == indices[folder_idx + 1]
folder_end(indices, total, folder_idx) ==
    IF folder_idx + 1 < Len(indices) THEN indices[folder_idx + 2] - 1 ELSE total - 1

\* the loop of _find_closest_folder_index that keeps the last of the folders
\* at the least distance (a mutant)
RECURSIVE closest_scan_last(_, _, _, _, _, _)
closest_scan_last(unextracted, indices, total, current_page, closest, min_distance) ==
    IF unextracted = <<>> THEN closest
    ELSE LET folder_idx == Head(unextracted)
             start_page == folder_start(indices, folder_idx)
             end_page   == folder_end(indices, total, folder_idx)
             distance   == Abs(start_page - current_page)
         IN  IF start_page <= current_page /\ current_page <= end_page
             THEN folder_idx
             ELSE IF distance <= min_distance
             THEN closest_scan_last(Tail(unextracted), indices, total, current_page,
                                    folder_idx, distance)
             ELSE closest_scan_last(Tail(unextracted), indices, total, current_page,
                                    closest, min_distance)

\* the for loop of _find_closest_folder_index over the rest of
\* unextracted_folders, with closest_folder_idx and min_distance so far
RECURSIVE closest_scan(_, _, _, _, _, _)
closest_scan(unextracted, indices, total, current_page, closest, min_distance) ==
    IF unextracted = <<>> THEN closest
    ELSE LET folder_idx == Head(unextracted)
             start_page == folder_start(indices, folder_idx)
             end_page   == folder_end(indices, total, folder_idx)
             distance   == Abs(start_page - current_page)
         IN  IF start_page <= current_page /\ current_page <= end_page
             THEN folder_idx
             ELSE IF distance < min_distance
             THEN closest_scan(Tail(unextracted), indices, total, current_page,
                               folder_idx, distance)
             ELSE closest_scan(Tail(unextracted), indices, total, current_page,
                               closest, min_distance)

\* ExtractionThread._find_closest_folder_index
find_closest_folder_index(unextracted, indices, total, current_page) ==
    IF unextracted = <<>> THEN NoFolder
    ELSE closest_scan(unextracted, indices, total, current_page, -1, float_inf)

\* a slice that leaves out the last file of the folder (a mutant)
files_in_folder_short(indices, total, folder_idx) ==
    LET start_page == folder_start(indices, folder_idx)
        end_page   == folder_end(indices, total, folder_idx)
    IN  [i \in 1..(end_page - start_page) |-> start_page + i - 1]

\* file_list[start_page:end_page] of run() (archive.py:280-283)
files_in_folder(indices, total, folder_idx) ==
    LET start_page == folder_start(indices, folder_idx)
        end_page   == IF folder_idx + 1 < Len(indices)
                      THEN indices[folder_idx + 2] ELSE total
    IN  [i \in 1..(end_page - start_page) |-> start_page + i - 1]

\* list.remove(x)
list_remove(q, x) == SelectSeq(q, LAMBDA e : e # x)

\* ExtractionThread(reader, file_list, folder_indices, ...)
ExtractionThreadInit(indices, total) ==
    /\ et_folder_indices = indices
    /\ et_total_files = total
    /\ et_unextracted = [i \in 1..Len(indices) |-> i - 1]
    /\ et_current_page = 0
    /\ et_target = NoFolder
    /\ et_files = <<>>
    /\ et_first_file_emitted = FALSE
    /\ et_attempted = <<>>
    /\ et_did = NoExtraction

\* no archive is open: the thread of a one-file list that is never started
ExtractIdle == ExtractionThreadInit(<<0>>, 1)

\* ExtractionThread.update_current_page(new_index)
UpdateCurrentPage(new_index) ==
    /\ et_current_page' = new_index
    /\ et_did' = [op |-> "update_current_page", file |-> new_index, woke |-> {}]
    /\ UNCHANGED <<et_folder_indices, et_total_files, et_unextracted, et_target, et_files,
                   et_first_file_emitted, et_attempted>>
    /\ UNCHANGED varsFetch

\* ExtractionThread.stop(), which _stop_extraction_thread calls on a thread
\* that isRunning()
ExtractStop ==
    /\ et_pc \notin {"not_started", "finished"}
    /\ et_running
    /\ et_running' = FALSE
    /\ et_did' = [op |-> "stop", file |-> -1, woke |-> {}]
    /\ UNCHANGED <<et_folder_indices, et_total_files, et_unextracted, et_current_page,
                   et_target, et_files, et_first_file_emitted, et_attempted>>
    /\ UNCHANGED <<fl_load_type, fl_cache, fl_status, et_pc, et_status, et_next,
                   et_finished_queued, fetch>>

\* run() starts: _status = RUNNING, first_file_emitted = False
ExtractRunStart ==
    /\ et_pc = "not_started"
    /\ et_pc' = "choose"
    /\ et_status' = "RUNNING"
    /\ et_first_file_emitted' = FALSE
    /\ et_did' = [op |-> "start", file |-> -1, woke |-> {}]
    /\ UNCHANGED <<et_folder_indices, et_total_files, et_unextracted, et_current_page,
                   et_target, et_files, et_attempted>>
    /\ UNCHANGED <<fl_load_type, fl_cache, fl_status, et_running, et_next,
                   et_finished_queued, fetch>>

\* run(), the head of the while loop passed: the next folder is chosen with
\* the current page read now, and its files are sliced out of the file list
ExtractChoose ==
    LET target_folder_idx == find_closest_folder_index(et_unextracted, et_folder_indices,
                                                       et_total_files, et_current_page)
    IN  /\ et_pc = "choose"
        /\ et_running
        /\ et_unextracted # <<>>
        /\ target_folder_idx # NoFolder
        /\ et_target' = target_folder_idx
        /\ et_files' = files_in_folder(et_folder_indices, et_total_files, target_folder_idx)
        /\ et_pc' = "member"
        /\ et_did' = [op |-> "choose", file |-> target_folder_idx, woke |-> {}]
        /\ UNCHANGED <<et_folder_indices, et_total_files, et_unextracted, et_current_page,
                       et_first_file_emitted, et_attempted>>
        /\ UNCHANGED <<fl_load_type, fl_cache, fl_status, et_status, et_running, et_next,
                       et_finished_queued, fetch>>

\* a wake that reaches one of the waiting threads only (a mutant)
wakeOne(fs) ==
    LET waiting == {f \in Fetchers : fs[f].pc = "waiting"}
    IN  [f \in Fetchers |->
            IF f \in waiting /\ \A g \in waiting : f <= g
            THEN [fs[f] EXCEPT !.woken = TRUE] ELSE fs[f]]

\* cache_wait_condition.wakeAll(): every thread inside wait() returns from it
wakeAll(fs) ==
    [f \in Fetchers |->
        IF fs[f].pc = "waiting" THEN [fs[f] EXCEPT !.woken = TRUE] ELSE fs[f]]

\* what reader.read_file does for the extraction: bytes, nothing, or it raises
ReadOutcomes == {"data", "empty", "raises"}

\* run(), one pass of the for loop with _running set: the member is skipped
\* when L3 holds it; else it is read, and bytes are stored in L3, announced by
\* first_file_extracted the first time, and followed by wakeAll
ExtractMember(outcome) ==
    LET target_file == Head(et_files)
        is_cached   == target_file \in fl_cache
        stored      == ~is_cached /\ outcome = "data"
        waiting     == {f \in Fetchers : fetch[f].pc = "waiting"}
        how         == IF is_cached THEN "cached" ELSE outcome
    IN  /\ et_pc = "member"
        /\ et_running
        /\ et_files # <<>>
        /\ et_files' = Tail(et_files)
        /\ et_attempted' = Append(et_attempted, target_file)
        /\ fl_cache' = IF stored THEN fl_cache \cup {target_file} ELSE fl_cache
        /\ et_first_file_emitted' = (et_first_file_emitted \/ stored)
        /\ fetch' = IF stored THEN wakeAll(fetch) ELSE fetch
        /\ et_did' = [op |-> how, file |-> target_file,
                      woke |-> IF stored THEN waiting ELSE {}]
        /\ UNCHANGED <<et_folder_indices, et_total_files, et_unextracted, et_current_page,
                       et_target>>
        /\ UNCHANGED <<fl_load_type, fl_status, et_pc, et_status, et_running, et_next,
                       et_finished_queued>>

\* run(), the for loop is over with _running set: the folder leaves
\* unextracted_folders and progress is emitted
ExtractFolderDone ==
    /\ et_pc = "member"
    /\ et_running
    /\ et_files = <<>>
    /\ et_unextracted' = list_remove(et_unextracted, et_target)
    /\ et_target' = NoFolder
    /\ et_pc' = "choose"
    /\ et_did' = [op |-> "folder_done", file |-> et_target, woke |-> {}]
    /\ UNCHANGED <<et_folder_indices, et_total_files, et_current_page, et_files,
                   et_first_file_emitted, et_attempted>>
    /\ UNCHANGED <<fl_load_type, fl_cache, fl_status, et_status, et_running, et_next,
                   et_finished_queued, fetch>>

\* run() leaves the while loop (by its condition, or by one of the two
\* `if not self._running: break`), sets _status and emits finished_with_status
ExtractRunEnd ==
    LET status == IF et_running THEN "COMPLETED" ELSE "CANCELLED"
    IN  /\ \/ et_pc = "choose" /\ (~et_running \/ et_unextracted = <<>>)
           \/ et_pc = "member" /\ ~et_running
        /\ et_pc' = "finished"
        /\ et_status' = status
        /\ et_finished_queued' = status
        /\ et_did' = [op |-> "end", file |-> -1, woke |-> {}]
        /\ UNCHANGED <<et_folder_indices, et_total_files, et_unextracted, et_current_page,
                       et_target, et_files, et_first_file_emitted, et_attempted>>
        /\ UNCHANGED <<fl_load_type, fl_cache, fl_status, et_running, et_next, fetch>>

\* =====================================================================
\*  PrefetcherWorker (app/core/prefetcher.py)
\* =====================================================================

varsAppState == <<total_pages, is_content_loaded, is_loading, requested_page,
                 file_loader_updated_count, error_dialog_count>>

varsSettings == <<is_spread_view, binding_direction, spread_view_first_page_single,
                 decoding_workers, settings, dialog>>

\* what load_path leaves alone of the prefetcher and of the calls it queued
varsPrefetch == <<pf_is_running, cpu_max_prefetch_pages, gpu_max_prefetch_pages,
                 gpu_prefetch_range, w_inbox>>

varsPrefetcher == <<varsPrefetch, pf_inbox>>

varsFirst == <<is_first_image_handled, is_first_image_ready>>

varsApp == <<varsAppState, varsSettings, before_load, varsPrefetcher, varsFirst,
             first_prepared, pf_last, calc>>

\* base_pages with the second page of a spread left out
base_pages_single(current_index, max_index, is_spread) == <<current_index>>

\* _calculate_pages_for_prefetch, step 1: the pages the ranges are built around
base_pages(current_index, max_index, is_spread) ==
    IF is_spread /\ current_index + 1 <= max_index
    THEN <<current_index, current_index + 1>>
    ELSE <<current_index>>

RECURSIVE collect_pages(_, _, _, _)
\* _calculate_pages_for_prefetch, step 2: for every base page the indices
\* range(start, end + 1) are added to the set all_pages_to_prefetch
collect_pages(pages, distance, max_index, all_pages_to_prefetch) ==
    IF pages = <<>> THEN all_pages_to_prefetch
    ELSE LET start == Max(0, Head(pages) - distance)
             end   == Min(max_index, Head(pages) + distance)
         IN  collect_pages(Tail(pages), distance, max_index,
                           all_pages_to_prefetch \cup (start..end))

RECURSIVE sorted(_)
\* sorted(list(a_set)) of integers
sorted(S) ==
    IF S = {} THEN <<>>
    ELSE LET m == CHOOSE x \in S : \A y \in S : x <= y
         IN  <<m>> \o sorted(S \ {m})

\* PrefetcherWorker._calculate_pages_for_prefetch
calculate_pages_for_prefetch(current_index, distance, max_index, is_spread) ==
    sorted(collect_pages(base_pages(current_index, max_index, is_spread),
                         distance, max_index, {}))

RECURSIVE get_all(_, _)
\* cache.get(k) for every k of keys in turn: each hit promotes its key
get_all(c, keys) ==
    IF keys = <<>> THEN c ELSE get_all(MoveToEnd(c, Head(keys)), Tail(keys))

\* _fill_gpu_cache_gaps: the pages that L2 holds and L1 does not
gpu_gaps(l1, l2, pages) ==
    SelectSeq(pages, LAMBDA p : ~HasKey(l1, TexKey(current_file_path, p)) /\ HasKey(l2, p))

\* a slot call the prefetcher queues for the loader thread
\* (repeat is history: the pass that emitted the call repeated the one before it)
AddTaskCall(page_index, repeat) ==
    [slot |-> "add_task", page_index |-> page_index, repeat |-> repeat]
TexturePreparationCall(page_index, repeat) ==
    [slot |-> "on_texture_preparation_requested", page_index |-> page_index,
     repeat |-> repeat]

\* the caches and queues a prefetch pass works on
PrefetchState ==
    [l2 |-> ic_cache, l1 |-> tc_cache, deleted |-> tc_deleted_textures,
     range |-> gpu_prefetch_range, inbox |-> w_inbox]

\* PrefetcherWorker._do_prefetch(current_index, is_spread) on st with the
\* radii cpu and gpu: the two windows, app_state.gpu_prefetch_range, the
\* requests for the gaps of L2, the eviction of L1 outside the GPU window,
\* the requests for the gaps of L1
do_prefetch(st, current_index, is_spread, cpu, gpu, repeat) ==
    LET max_index == total_pages - 1
        cpu_pages == calculate_pages_for_prefetch(current_index, cpu, max_index, is_spread)
        gpu_pages == calculate_pages_for_prefetch(current_index, gpu, max_index, is_spread)
        cpu_gaps  == SelectSeq(cpu_pages, LAMBDA p : ~HasKey(st.l2, p))
        l2a       == get_all(st.l2, cpu_pages)
        start_page == gpu_pages[1]
        end_page   == gpu_pages[Len(gpu_pages)] + 1
        evict(e)  == /\ gpu_pages # <<>>
                     /\ e.key \notin tc_pinned_keys
                     /\ ~(start_page <= PageIndexOf(e.key) /\ PageIndexOf(e.key) < end_page)
        gone      == SelectSeq(st.l1, evict)
        l1a       == SelectSeq(st.l1, LAMBDA e : ~evict(e))
        gaps      == gpu_gaps(l1a, l2a, gpu_pages)
    IN  IF ~pf_is_running \/ ~is_content_loaded \/ max_index < 0 THEN st
        ELSE [l2 |-> get_all(l2a, gpu_pages),
              l1 |-> get_all(l1a, [i \in 1..Len(gpu_pages) |->
                                      TexKey(current_file_path, gpu_pages[i])]),
              deleted |-> st.deleted \o [i \in 1..Len(gone) |-> gone[i].value.texture_id],
              range |-> Range(gpu_pages),
              inbox |-> st.inbox
                        \o [i \in 1..Len(cpu_gaps) |-> AddTaskCall(cpu_gaps[i], repeat)]
                        \o [i \in 1..Len(gaps) |->
                               TexturePreparationCall(gaps[i], repeat)]]

\* a radius the settings of an update_prefetch_settings call do not hold
KeepRadius == -1

\* prefetcher settings a change of the cache settings carries
UpdatePrefetchSettings(cpu, gpu) ==
    [slot |-> "update_prefetch_settings", cpu |-> cpu, gpu |-> gpu]


\* the prefetcher thread runs the oldest queued slot call:
\* on_page_index_changed(index, is_spread), on_context_changed() or
\* update_prefetch_settings(settings), each of which ends in _do_prefetch
PrefetcherHandle(repeat) ==
    LET call == Head(pf_inbox)
        cpu  == IF call.slot = "update_prefetch_settings" /\ call.cpu # KeepRadius
                THEN call.cpu ELSE cpu_max_prefetch_pages
        gpu  == IF call.slot = "update_prefetch_settings" /\ call.gpu # KeepRadius
                THEN call.gpu ELSE gpu_max_prefetch_pages
        st   == IF call.slot = "on_page_index_changed"
                THEN do_prefetch(PrefetchState, call.index, call.is_spread, cpu, gpu,
                                 repeat)
                ELSE do_prefetch(PrefetchState, current_page_index, is_spread_view,
                                 cpu, gpu, repeat)
    IN  /\ pf_inbox # <<>>
        /\ pf_inbox' = Tail(pf_inbox)
        /\ cpu_max_prefetch_pages' = cpu
        /\ gpu_max_prefetch_pages' = gpu
        /\ ic_cache' = st.l2
        /\ tc_cache' = st.l1
        /\ tc_deleted_textures' = st.deleted
        /\ tc_returned' = <<>>
        /\ gpu_prefetch_range' = st.range
        /\ w_inbox' = st.inbox
        /\ UNCHANGED <<pf_is_running, ic_current_size, ic_max_size, ic_max_cache_size,
                       ic_min_cache_size, ic_dynamic_resizing, ic_raised, ic_last,
                       tc_max_size, tc_pinned_keys, next_texture_id, current_page_index>>

\* =====================================================================
\*  ApplicationController.load_path and OpenGLView (UI thread)
\* =====================================================================

varsUi == <<loader_paths, ui_pc, current_file_path, app_file_loader,
            display_keys, prepare_queue>>

\* load_path calls of one run that reach FileLoader(path)
MaxLoads == 2

\* a queued call of a slot of the prefetcher; a stopped prefetcher returns
\* from it at once, and the call is not recorded then
pf_post(inbox, call) == IF pf_is_running THEN Append(inbox, call) ELSE inbox

\* page_index_changed(index, is_spread_view) on its way to the prefetcher
PageIndexChanged(index) ==
    [slot |-> "on_page_index_changed", index |-> index, is_spread |-> is_spread_view]

\* file_loader_updated on its way to the prefetcher
ContextChanged == [slot |-> "on_context_changed", index |-> 0, is_spread |-> FALSE]

RECURSIVE request_missing(_, _, _, _)
\* OpenGLView.displayImage, last loop: request_load_image(page, 0) for every
\* key that is not resident, which on_request_load_image hands to add_task
request_missing(keys, tc, w, cache) ==
    IF keys = <<>> THEN w
    ELSE request_missing(Tail(keys), tc,
             IF HasKey(tc, Head(keys)) THEN w
             ELSE add_task(w, cache, PageIndexOf(Head(keys)), PRIORITY_VIEW),
             cache)

\* OpenGLView.displayImage(keys) with the worker fields w: unpin the old keys,
\* pin the new ones, request the missing ones
displayImage(keys, w) ==
    [display_keys |-> keys,
     pinned |-> (tc_pinned_keys \ Range(display_keys))
                    \cup {k \in Range(keys) : HasKey(tc_cache, k)},
     w |-> request_missing(keys, tc_cache, w, ic_cache)]

\* UIManager._get_page_indices_to_display: the pages to draw, left one first
get_page_indices_to_display(current_index, total, spread, first_page_single, binding) ==
    LET offset        == IF first_page_single THEN 1 ELSE 0
        start_of_pair == ((current_index - offset) \div 2) * 2 + offset
        page1         == start_of_pair
        page2         == start_of_pair + 1
    IN  IF ~(0 <= current_index /\ current_index < total) THEN <<>>
        ELSE IF ~spread THEN <<current_index>>
        ELSE IF first_page_single /\ current_index = 0 THEN <<0>>
        ELSE IF page2 >= total THEN <<current_index>>
        ELSE IF binding = "right" THEN <<page2, page1>>
        ELSE <<page1, page2>>

\* UIManager.update_view for the content of path with total pages, loaded
\* telling whether is_content_loaded and the manager's file_loader are set
update_view(path, loaded, page, total, w) ==
    LET indices == get_page_indices_to_display(page, total, is_spread_view,
                       spread_view_first_page_single, binding_direction)
    IN  displayImage(IF loaded THEN [i \in 1..Len(indices) |-> TexKey(path, indices[i])]
                     ELSE <<>>, w)

\* load_path up to current_file_path = path: AppState is reset (the page
\* index change runs update_view), the view and both caches are cleared
LoadPathBegin(path, page) ==
    /\ ui_pc = "idle"
    /\ ~is_loading
    /\ Len(loader_paths) + error_dialog_count < MaxLoads
    /\ ui_pc' = "creating"
    /\ is_loading' = TRUE
    /\ requested_page' = page
    /\ app_file_loader' = 0
    /\ total_pages' = 0
    /\ is_content_loaded' = FALSE
    /\ current_page_index' = -1
    /\ pf_inbox' = IF current_page_index # -1
                   THEN pf_post(pf_inbox, PageIndexChanged(-1)) ELSE pf_inbox
    /\ display_keys' = <<>>
    /\ ic_cache' = <<>>
    /\ ic_current_size' = IF Len(ic_cache) > 0 THEN 0 ELSE ic_current_size
    /\ UNCHANGED <<ic_max_size, ic_max_cache_size, ic_min_cache_size,
                   ic_dynamic_resizing, ic_raised, ic_last>>
    /\ tc_cache' = <<>>
    /\ tc_deleted_textures' =
           tc_deleted_textures \o [i \in 1..Len(tc_cache) |-> tc_cache[i].value.texture_id]
    /\ tc_pinned_keys' = IF Len(tc_cache) > 0 THEN {}
                         ELSE IF current_page_index # -1
                         THEN tc_pinned_keys \ Range(display_keys)
                         ELSE tc_pinned_keys
    /\ tc_returned' = <<>>
    /\ current_file_path' = path
    /\ is_first_image_ready' = FALSE
    /\ UNCHANGED <<loader_paths, prepare_queue, tc_max_size, next_texture_id,
                   file_loader_updated_count, error_dialog_count, varsPrefetch,
                   is_first_image_handled>>

\* load_path, FileLoader(path) and get_image_list. A missing path raises
\* FileNotFoundError, which shows the error dialog; an empty image list
\* returns; both reach the finally block (_is_loading = False, update_view).
\* Otherwise the FileLoader is installed and AppState updated: the page index
\* setter, given another value than it holds, emits page_index_changed, which
\* runs update_view, whose request reaches the worker as it is
LoadPathCreate ==
    LET id == Len(loader_paths) + 1
        n  == ImageCount(current_file_path)
        v  == update_view(current_file_path, TRUE, requested_page, n, Worker)
        e  == update_view(current_file_path, FALSE, current_page_index, 0, Worker)
        changed == requested_page # current_page_index
    IN  /\ ui_pc = "creating"
        /\ tc_returned' = <<>>
        /\ IF ~PathExists(current_file_path) \/ n = 0
           THEN /\ ui_pc' = "idle"
                /\ is_loading' = FALSE
                /\ error_dialog_count' =
                       IF PathExists(current_file_path) THEN error_dialog_count
                       ELSE error_dialog_count + 1
                /\ display_keys' = e.display_keys
                /\ tc_pinned_keys' = e.pinned
                /\ WorkerBecomes(e.w)
                /\ loader_paths' = IF PathExists(current_file_path)
                                   THEN Append(loader_paths, current_file_path)
                                   ELSE loader_paths
                /\ UNCHANGED <<app_file_loader, current_page_index, total_pages,
                               is_content_loaded, pf_inbox, is_first_image_handled>>
           ELSE /\ ui_pc' = "emitting"
                /\ loader_paths' = Append(loader_paths, current_file_path)
                /\ app_file_loader' = id
                /\ total_pages' = n
                /\ is_content_loaded' = TRUE
                /\ is_first_image_handled' = FALSE
                /\ current_page_index' = requested_page
                /\ pf_inbox' = IF changed
                               THEN pf_post(pf_inbox, PageIndexChanged(requested_page))
                               ELSE pf_inbox
                /\ display_keys' = IF changed THEN v.display_keys ELSE display_keys
                /\ tc_pinned_keys' = IF changed THEN v.pinned ELSE tc_pinned_keys
                /\ WorkerBecomes(IF changed THEN v.w ELSE Worker)
                /\ UNCHANGED <<is_loading, error_dialog_count>>
        /\ UNCHANGED <<current_file_path, prepare_queue, tc_cache, tc_max_size,
                       tc_deleted_textures, next_texture_id, requested_page,
                       file_loader_updated_count, varsPrefetch, is_first_image_ready>>

\* load_path, file_loader_updated.emit: ThreadManager.on_file_loader_updated
\* calls set_file_loader and the prefetcher's on_context_changed is queued;
\* then the finally block runs (_is_loading = False, update_view)
LoadPathFinish ==
    LET w0 == set_file_loader(Worker, app_file_loader, current_file_path)
        v  == update_view(current_file_path, TRUE, current_page_index, total_pages, w0)
    IN  /\ ui_pc = "emitting"
        /\ ui_pc' = "idle"
        /\ is_loading' = FALSE
        /\ file_loader_updated_count' = file_loader_updated_count + 1
        /\ pf_inbox' = pf_post(pf_inbox, ContextChanged)
        /\ display_keys' = v.display_keys
        /\ tc_pinned_keys' = v.pinned
        /\ tc_returned' = <<>>
        /\ WorkerBecomes(v.w)
        /\ UNCHANGED <<loader_paths, current_file_path, app_file_loader, prepare_queue,
                       current_page_index, tc_cache, tc_max_size, tc_deleted_textures,
                       next_texture_id, total_pages, is_content_loaded, requested_page,
                       error_dialog_count, varsPrefetch, varsFirst>>

\* a step of one page whatever the view mode
page_step_one(spread) == 1

\* EventHandler._navigate, first line: two pages at a time in spread view
page_step(spread) == IF spread THEN 2 ELSE 1

\* EventHandler._navigate: the page a step in direction leads to
navigate_target(current_index, direction, spread, n) ==
    LET new_index == current_index + direction * page_step(spread)
    IN  IF new_index < 0 THEN 0
        ELSE IF new_index >= n THEN n - 1
        ELSE new_index

\* EventHandler.keyPressEvent -> navigate_pages -> _navigate(direction). With
\* spread view and spread_view_first_page_single the handler reads
\* app_state.folder_start_indices, which AppState never defines: the
\* AttributeError ends the handler with nothing changed. Otherwise the page
\* index setter emits page_index_changed, which runs update_view
Navigate(direction) ==
    LET new_index == navigate_target(current_page_index, direction, is_spread_view,
                                     total_pages)
        v == update_view(current_file_path, app_file_loader # 0, new_index,
                         total_pages, Worker)
    IN  /\ ui_pc = "idle"
        /\ is_content_loaded
        /\ IF \/ is_spread_view /\ spread_view_first_page_single
              \/ new_index = current_page_index
           THEN UNCHANGED <<current_page_index, pf_inbox, display_keys, tc_pinned_keys,
                            tc_returned, w_file_loader, w_image_files, w_high, w_low,
                            w_processing, w_pnt_queued>>
           ELSE /\ current_page_index' = new_index
                /\ pf_inbox' = pf_post(pf_inbox, PageIndexChanged(new_index))
                /\ display_keys' = v.display_keys
                /\ tc_pinned_keys' = v.pinned
                /\ tc_returned' = <<>>
                /\ WorkerBecomes(v.w)
        /\ UNCHANGED <<loader_paths, ui_pc, current_file_path, app_file_loader,
                       prepare_queue, tc_cache, tc_max_size, tc_deleted_textures,
                       next_texture_id, varsAppState, varsPrefetch, varsFirst>>

\* ApplicationController.jump_to_page(page_index): an index outside the file
\* list is refused; else the page index setter emits page_index_changed,
\* which runs update_view
JumpToPage(page_index) ==
    LET v == update_view(current_file_path, app_file_loader # 0, page_index,
                         total_pages, Worker)
    IN  /\ ui_pc = "idle"
        /\ IF \/ ~(0 <= page_index /\ page_index < total_pages)
              \/ page_index = current_page_index
           THEN UNCHANGED <<current_page_index, pf_inbox, display_keys, tc_pinned_keys,
                            tc_returned, w_file_loader, w_image_files, w_high, w_low,
                            w_processing, w_pnt_queued>>
           ELSE /\ current_page_index' = page_index
                /\ pf_inbox' = pf_post(pf_inbox, PageIndexChanged(page_index))
                /\ display_keys' = v.display_keys
                /\ tc_pinned_keys' = v.pinned
                /\ tc_returned' = <<>>
                /\ WorkerBecomes(v.w)
        /\ UNCHANGED <<loader_paths, ui_pc, current_file_path, app_file_loader,
                       prepare_queue, tc_cache, tc_max_size, tc_deleted_textures,
                       next_texture_id, varsAppState, varsPrefetch, varsFirst>>

\* EventHandler.navigate_single_page: the page one step in direction, 0 when
\* that is negative, none past the last page
navigate_single_target(current_index, direction, n) ==
    LET new_index == current_index + direction
    IN  IF new_index < 0 THEN 0
        ELSE IF new_index >= n THEN current_index
        ELSE new_index

\* EventHandler.keyPressEvent -> navigate_single_page(direction), which goes
\* through jump_to_page
NavigateSinglePage(direction) ==
    /\ is_content_loaded
    /\ JumpToPage(navigate_single_target(current_page_index, direction, total_pages))

\* ApplicationController.handle_cache_settings_change with new prefetch radii:
\* cache_settings_changed reaches the prefetcher as a queued call. Nothing
\* calls OpenGLView.update_settings, the one place that resizes the TextureCache
HandleCacheSettingsChange(cpu, gpu) ==
    /\ ui_pc = "idle"
    /\ pf_inbox' = pf_post(pf_inbox, UpdatePrefetchSettings(cpu, gpu))
    /\ UNCHANGED <<varsPrefetch, varsUi, varsL1, varsL2>>

\* ApplicationController.on_request_load_image
on_request_load_image(page_index, priority) ==
    /\ ui_pc = "idle"
    /\ WorkerBecomes(add_task(Worker, ic_cache, page_index, priority))

\* prepare_texture without the test against the prefetch range
skipped_by_range_never(key) == FALSE

\* OpenGLView.prepare_texture, the filter: once the prefetcher has set
\* app_state.gpu_prefetch_range, a page that is neither displayed nor in the
\* range is skipped
skipped_by_range(key) ==
    /\ gpu_prefetch_range # {}
    /\ key \notin Range(display_keys)
    /\ PageIndexOf(key) \notin gpu_prefetch_range

\* prepare_texture that queues nothing
prepare_texture_dropped(q, key, image) == q

\* OpenGLView.prepare_texture(key, image) on the queue q: the range filter,
\* then nothing for a key that L1 or the queue already holds, else the upload
\* is queued for the next frame
prepare_texture(q, key, image) ==
    IF skipped_by_range(key) THEN q
    ELSE IF HasKey(tc_cache, key) \/ HasKey(q, key) THEN q
    ELSE Append(q, [key |-> key, image |-> image])

\* OpenGLView.on_page_cached(page_number) gets as far as image_cache.get
on_page_cached_reads(page_number) ==
    LET key == TexKey(PathOf(app_file_loader), page_number)
    IN  /\ app_file_loader # 0
        /\ ~(HasKey(tc_cache, key) \/ HasKey(prepare_queue, key))

\* ImageCache.set emits page_cached and _on_image_decoded then emits
\* image_loaded, both queued to the UI thread, which runs them one after the
\* other: OpenGLView.on_page_cached reads L2 (a hit promotes the page) and
\* defers prepare_texture with a zero timer, then UIManager.handle_image_loaded ->
\* OpenGLView.on_image_loaded -> prepare_texture, then the deferred call
on_image_loaded ==
    LET ev    == Head(ui_events)
        key   == TexKey(PathOf(app_file_loader), ev.index)
        reads == ev.cached /\ on_page_cached_reads(ev.index)
        q1    == IF app_file_loader = 0 THEN prepare_queue
                 ELSE prepare_texture(prepare_queue, key, ev.image)
    IN  /\ ui_pc = "idle"
        /\ ui_events # <<>>
        /\ ui_events' = Tail(ui_events)
        /\ ic_cache' = IF reads THEN MoveToEnd(ic_cache, ev.index) ELSE ic_cache
        /\ prepare_queue' =
               IF reads /\ HasKey(ic_cache, ev.index)
               THEN prepare_texture(q1, key,
                        ic_cache[IndexOf(ic_cache, ev.index)].value.src)
               ELSE q1
        /\ UNCHANGED <<loader_paths, ui_pc, current_file_path, app_file_loader,
                       display_keys, ic_current_size, ic_max_size,
                       ic_max_cache_size, ic_min_cache_size, ic_dynamic_resizing,
                       ic_raised, ic_last>>

\* what paintGL works on: L1 and the texture ids, and what the slots of
\* texture_prepared reach: the first image flags and a prefetch pass; prepared
\* lists the keys texture_prepared was emitted for, resident whether L1 held
\* the key at the emission
PaintState ==
    [l1 |-> tc_cache, deleted |-> <<>>, id |-> next_texture_id, l2 |-> ic_cache,
     range |-> gpu_prefetch_range, inbox |-> w_inbox,
     handled |-> is_first_image_handled, ready |-> is_first_image_ready,
     prepared |-> <<>>, resident |-> <<>>]

\* texture_prepared(key) emitted by _prepare_texture_internal:
\* UIManager.on_texture_prepared emits first_image_ready for the first key of
\* page 0, and ApplicationController.on_first_image_ready then calls the
\* prefetcher's on_page_index_changed on the UI thread, once per load
texture_prepared(st, key) ==
    LET first == ~st.handled /\ PageIndexOf(key) = 0
        p == do_prefetch([l2 |-> st.l2, l1 |-> st.l1, deleted |-> st.deleted,
                          range |-> st.range, inbox |-> st.inbox],
                         current_page_index, is_spread_view,
                         cpu_max_prefetch_pages, gpu_max_prefetch_pages, FALSE)
    IN  IF first /\ ~st.ready
        THEN [st EXCEPT !.l2 = p.l2, !.l1 = p.l1, !.deleted = p.deleted,
                        !.range = p.range, !.inbox = p.inbox,
                        !.handled = TRUE, !.ready = TRUE,
                        !.prepared = Append(@, key),
                        !.resident = Append(@, HasKey(st.l1, key))]
        ELSE [st EXCEPT !.handled = (@ \/ first), !.prepared = Append(@, key),
                        !.resident = Append(@, HasKey(st.l1, key))]

\* what the GL calls of one frame do: they succeed, or raise in glGenTextures
\* (no texture id was produced), or raise after it (the id is lost)
GlOutcomes == {"ok", "no_id", "leaked_id"}

\* OpenGLView._prepare_texture_internal(key, image) for one entry of the
\* queue: nothing for a key L1 holds; else the upload and texture_cache.set
\* inside try/except, and texture_prepared.emit(key) after it in any case
prepare_texture_internal(st, entry, gl) ==
    LET r == evict_if_needed(
                 Append(st.l1, [key |-> entry.key,
                                value |-> Texture(st.id, entry.image)]),
                 tc_pinned_keys, tc_max_size, current_page_index, st.deleted)
    IN  IF HasKey(st.l1, entry.key) THEN st
        ELSE IF gl = "ok"
        THEN texture_prepared([st EXCEPT !.l1 = r.cache, !.deleted = r.deleted,
                                         !.id = @ + 1],
                              entry.key)
        ELSE IF gl = "leaked_id"
        THEN texture_prepared([st EXCEPT !.id = @ + 1], entry.key)
        ELSE texture_prepared(st, entry.key)

RECURSIVE prepare_each(_, _, _)
\* paintGL: _prepare_texture_internal for every entry of the prepare queue
prepare_each(q, st, gl) ==
    IF q = <<>> THEN st
    ELSE prepare_each(Tail(q), prepare_texture_internal(st, Head(q), gl), gl)

\* the uploads of a frame whose GL calls succeed
prepare_all(q, st) == prepare_each(q, st, "ok")

RECURSIVE render_lookup(_, _)
\* paintGL: texture_cache.get for the display keys until one is missing
render_lookup(c, keys) ==
    IF keys = <<>> THEN c
    ELSE IF HasKey(c, Head(keys)) THEN render_lookup(MoveToEnd(c, Head(keys)), Tail(keys))
    ELSE c

\* OpenGLView.paintGL, the GL calls of the uploads ending as gl says
Frame(gl) ==
    LET r == prepare_each(prepare_queue, PaintState, gl)
    IN  /\ ui_pc = "idle"
        /\ next_texture_id + Len(prepare_queue) - 1 <= MaxTexId
        /\ tc_returned' = IF prepare_queue = <<>> /\ display_keys = <<>>
                          THEN tc_deleted_textures ELSE <<>>
        /\ prepare_queue' = <<>>
        /\ tc_cache' = render_lookup(r.l1, display_keys)
        /\ tc_deleted_textures' = r.deleted
        /\ next_texture_id' = r.id
        /\ ic_cache' = r.l2
        /\ gpu_prefetch_range' = r.range
        /\ w_inbox' = r.inbox
        /\ is_first_image_handled' = r.handled
        /\ is_first_image_ready' = r.ready
        /\ UNCHANGED <<loader_paths, ui_pc, current_file_path, app_file_loader,
                       display_keys, tc_max_size, tc_pinned_keys, current_page_index,
                       ic_current_size, ic_max_size, ic_max_cache_size,
                       ic_min_cache_size, ic_dynamic_resizing, ic_raised, ic_last,
                       pf_is_running, pf_inbox, cpu_max_prefetch_pages,
                       gpu_max_prefetch_pages, varsAppState>>

\* OpenGLView.paintGL on a GL context that works
paintGL == Frame("ok")

\* the loader thread runs the oldest slot call the prefetcher queued:
\* add_task(page, PRIORITY_PREFETCH), or on_texture_preparation_requested(page),
\* which hands a page that L2 holds to _on_image_decoded and queues a decode
\* for one that L2 does not hold
WorkerHandleInbox ==
    LET call  == Head(w_inbox)
        index == call.page_index
        valid == w_running /\ 0 <= index /\ index < w_image_files
        hit   == HasKey(ic_cache, index)
    IN  /\ w_pc = "idle"
        /\ w_inbox # <<>>
        /\ w_inbox' = Tail(w_inbox)
        /\ w_emitted' = {}
        /\ w_did' = NothingDone
        /\ IF call.slot = "on_texture_preparation_requested" /\ valid /\ hit
           THEN /\ Len(ui_events) < MaxUiEvents
                /\ ic_cache' = MoveToEnd(ic_cache, index)
                /\ w_pc' = "decoded"
                /\ w_cur' = [index |-> index,
                             image |-> ic_cache[IndexOf(ic_cache, index)].value.src,
                             error |-> FALSE]
                /\ UNCHANGED <<w_file_loader, w_image_files, w_high, w_low,
                               w_processing, w_pnt_queued>>
           ELSE /\ WorkerBecomes(IF call.slot = "add_task" \/ valid
                                 THEN add_task(Worker, ic_cache, index, PRIORITY_PREFETCH)
                                 ELSE Worker)
                /\ UNCHANGED <<ic_cache, w_pc, w_cur>>
        /\ UNCHANGED <<w_running, pool, ui_events, ic_current_size, ic_max_size,
                       ic_max_cache_size, ic_min_cache_size, ic_dynamic_resizing,
                       ic_raised, ic_last, pf_is_running, pf_inbox,
                       cpu_max_prefetch_pages, gpu_max_prefetch_pages,
                       gpu_prefetch_range>>

\* =====================================================================
\*  Settings.load_settings and SettingsDialog: the prefetch radii
\* =====================================================================

\* Settings._get_default_settings, and the values load_settings falls back to
default_cpu_max_prefetch_pages == 10
default_gpu_max_prefetch_pages == 9

\* the range of both spin boxes of the dialog: setRange(1, 50)
spin_minimum == 1
spin_maximum == 50

\* the largest radius a settings file holds, or the user enters
MaxRadius == 3

\* what a key of config.json holds: {} for a key that is missing or whose
\* value is not an int, else {v}
FileValues == {{}} \cup {{v} : v \in (-1)..MaxRadius}
\* the same for the keys of older versions
LegacyValues == {{}, {MaxRadius}}

\* the value of a key that is present
ValueOf(entry) == CHOOSE v \in entry : TRUE

\* the settings where the radii of the prefetcher are given directly
NoSettings == [cpu_max_prefetch_pages |-> -1, gpu_max_prefetch_pages |-> -1]

\* no dialog is open
NoDialog == [open |-> FALSE, cpu |-> 0, gpu |-> 0, gpu_maximum |-> 0,
             initial_cpu |-> 0, initial_gpu |-> 0]

\* Settings.load_settings on the keys of the file: the keys of older versions
\* are renamed, then each radius that is missing, not an int or negative gets
\* its default
load_settings(file) ==
    LET cpu  == IF file.max_prefetch_pages # {} THEN file.max_prefetch_pages
                ELSE file.cpu_max_prefetch_pages
        gpu1 == IF file.gpu_texture_cache_size # {} THEN file.gpu_texture_cache_size
                ELSE file.gpu_max_prefetch_pages
        gpu  == IF file.gpu_cache_page_count # {} THEN file.gpu_cache_page_count
                ELSE gpu1
    IN  [cpu_max_prefetch_pages |->
             IF cpu = {} THEN default_cpu_max_prefetch_pages
             ELSE IF ValueOf(cpu) < 0 THEN default_cpu_max_prefetch_pages
             ELSE ValueOf(cpu),
         gpu_max_prefetch_pages |->
             IF gpu = {} THEN default_gpu_max_prefetch_pages
             ELSE IF ValueOf(gpu) < 0 THEN default_gpu_max_prefetch_pages
             ELSE ValueOf(gpu)]

\* QSpinBox.setValue: the value is brought into the range of the box
spin_value(v, minimum, maximum) == Max(minimum, Min(v, maximum))

\* SettingsDialog._validate_prefetch_settings: the maximum of the GPU spin box
\* becomes the CPU value (setMaximum lowers a value above it)
validate_prefetch_settings(d) ==
    [d EXCEPT !.gpu_maximum = d.cpu, !.gpu = Min(d.gpu, d.cpu)]

\* SettingsDialog(settings_manager): the spin boxes show the stored radii,
\* _save_initial_settings keeps the stored values
OpenSettingsDialog ==
    /\ ~dialog.open
    /\ dialog' = validate_prefetch_settings(
           [open |-> TRUE,
            cpu |-> spin_value(settings.cpu_max_prefetch_pages, spin_minimum, spin_maximum),
            gpu |-> spin_value(settings.gpu_max_prefetch_pages, spin_minimum, spin_maximum),
            gpu_maximum |-> spin_maximum,
            initial_cpu |-> settings.cpu_max_prefetch_pages,
            initial_gpu |-> settings.gpu_max_prefetch_pages])
    /\ UNCHANGED settings

\* the user enters v in the CPU spin box: valueChanged runs the validation
SetCpuSpin(v) ==
    /\ dialog.open
    /\ dialog' = validate_prefetch_settings(
           [dialog EXCEPT !.cpu = spin_value(v, spin_minimum, spin_maximum)])
    /\ UNCHANGED settings

\* the user enters v in the GPU spin box
SetGpuSpin(v) ==
    /\ dialog.open
    /\ dialog' = validate_prefetch_settings(
           [dialog EXCEPT !.gpu = spin_value(v, spin_minimum, dialog.gpu_maximum)])
    /\ UNCHANGED settings

\* SettingsDialog.on_reset_cache_settings
on_reset_cache_settings ==
    LET d1 == validate_prefetch_settings(
                  [dialog EXCEPT !.cpu = spin_value(default_cpu_max_prefetch_pages,
                                                    spin_minimum, spin_maximum)])
    IN  /\ dialog.open
        /\ dialog' = validate_prefetch_settings(
               [d1 EXCEPT !.gpu = spin_value(default_gpu_max_prefetch_pages,
                                             spin_minimum, d1.gpu_maximum)])
        /\ UNCHANGED settings

\* SettingsDialog.accept_settings: the radii that differ from the initial
\* ones are stored and sent on with cache_settings_changed, which
\* handle_cache_settings_change forwards to the prefetcher; the radius that
\* did not change is not sent, and the prefetcher keeps it
accept_settings ==
    LET cpu_changed == dialog.cpu # dialog.initial_cpu
        gpu_changed == dialog.gpu # dialog.initial_gpu
    IN  /\ dialog.open
        /\ dialog' = NoDialog
        /\ settings' = [cpu_max_prefetch_pages |->
                            IF cpu_changed THEN dialog.cpu
                            ELSE settings.cpu_max_prefetch_pages,
                        gpu_max_prefetch_pages |->
                            IF gpu_changed THEN dialog.gpu
                            ELSE settings.gpu_max_prefetch_pages]
        /\ IF cpu_changed \/ gpu_changed
           THEN HandleCacheSettingsChange(
                    IF cpu_changed THEN dialog.cpu ELSE KeepRadius,
                    IF gpu_changed THEN dialog.gpu ELSE KeepRadius)
           ELSE /\ ui_pc = "idle"
                /\ UNCHANGED <<pf_inbox, varsPrefetch, varsUi, varsL1, varsL2>>

\* the dialog is closed with Cancel
reject_settings ==
    /\ dialog.open
    /\ dialog' = NoDialog
    /\ UNCHANGED settings

\* =====================================================================
\*  The application at start
\* =====================================================================

\* no call made yet
NoCalc == [current_index |-> 0, distance |-> 0, max_index |-> 0, is_spread |-> FALSE,
           result |-> <<>>, done |-> FALSE]

\* a call of _calculate_pages_for_prefetch with the arguments held in calc
CalculatePagesForPrefetch ==
    /\ ~calc.done
    /\ calc' = [calc EXCEPT !.done = TRUE,
                            !.result = calculate_pages_for_prefetch(
                                calc.current_index, calc.distance, calc.max_index,
                                calc.is_spread)]

\* no load_path call recorded
NoLoad == [called |-> FALSE]

\* PrefetcherWorker.__init__ with the radii of the settings
PrefetcherInit(running, cpu, gpu) ==
    /\ pf_is_running = running
    /\ pf_inbox = <<>>
    /\ cpu_max_prefetch_pages = cpu
    /\ gpu_max_prefetch_pages = gpu
    /\ gpu_prefetch_range = {}
    /\ w_inbox = <<>>

\* no on_page_index_changed so far, or one that did not come from the queue
NoPass ==
    [index |-> -2, is_spread |-> FALSE, l2 |-> <<>>, l1 |-> <<>>, high |-> <<>>,
     low |-> <<>>, processing |-> {}]

\* a prefetcher after stop()
PrefetcherStopped == PrefetcherInit(FALSE, 1, 1)

\* AppState(settings_manager) with the given view settings and the
\* controller before any load_path
AppStartWith(spread, binding, first_single, workers, radii) ==
    /\ decoding_workers = workers
    /\ settings = radii
    /\ dialog = NoDialog
    /\ total_pages = 0
    /\ is_content_loaded = FALSE
    /\ is_loading = FALSE
    /\ requested_page = 0
    /\ is_spread_view = spread
    /\ binding_direction = binding
    /\ spread_view_first_page_single = first_single
    /\ file_loader_updated_count = 0
    /\ error_dialog_count = 0
    /\ before_load = NoLoad
    /\ is_first_image_handled = FALSE
    /\ is_first_image_ready = FALSE
    /\ first_prepared = -1
    /\ pf_last = NoPass
    /\ calc = NoCalc

\* the same where the radii of the prefetcher are given directly
AppStart(spread, binding, first_single, workers) ==
    AppStartWith(spread, binding, first_single, workers, NoSettings)

\* the same with the default number of decode workers and a stopped prefetcher
AppStateInit(spread, binding, first_single) ==
    /\ AppStart(spread, binding, first_single, parallel_decoding_workers)
    /\ PrefetcherStopped

\* the application in single page view
AppInit == AppStateInit(FALSE, "right", FALSE)

\* =====================================================================
\*  ThreadManager: the threads and their shutdown (app/core/thread_manager.py)
\* =====================================================================

varsThreads == <<tm_prefetcher_thread, tm_image_loader_thread, tm_extraction_thread,
                 tm_log, tm_cleanups>>

\* ThreadManager.__init__: two QThreads created and not started, no
\* extraction thread
ThreadsIdle ==
    /\ tm_prefetcher_thread = "not_started"
    /\ tm_image_loader_thread = "not_started"
    /\ tm_extraction_thread = "None"
    /\ tm_log = <<>>
    /\ tm_cleanups = 0

\* QThread.isRunning() of a worker thread
isRunning(thread) == thread = "running"

\* ExtractionThread.isRunning(): inside run()
extraction_isRunning == et_pc \in {"choose", "member", "reading"}

\* the stop and wait calls of cleanup_threads in the order: image loader,
\* prefetcher, extraction thread (a mutant)
cleanup_calls_loader_first(prefetcher, loader, extraction) ==
    (IF loader THEN <<"image_loader_worker.stop", "image_loader_thread.wait">> ELSE <<>>)
    \o (IF prefetcher THEN <<"prefetcher_worker.stop", "prefetcher_thread.wait">> ELSE <<>>)
    \o (IF extraction THEN <<"extraction_thread.stop", "extraction_thread.wait">> ELSE <<>>)

\* the stop and wait calls cleanup_threads makes, in the order of its
\* statements, given which of its three tests pass
cleanup_calls(prefetcher, loader, extraction) ==
    (IF prefetcher THEN <<"prefetcher_worker.stop", "prefetcher_thread.wait">> ELSE <<>>)
    \o (IF loader THEN <<"image_loader_worker.stop", "image_loader_thread.wait">> ELSE <<>>)
    \o (IF extraction THEN <<"extraction_thread.stop", "extraction_thread.wait">> ELSE <<>>)

\* ThreadManager.setup_threads: both worker threads are started
SetupThreads ==
    /\ tm_prefetcher_thread = "not_started"
    /\ tm_image_loader_thread = "not_started"
    /\ tm_prefetcher_thread' = "running"
    /\ tm_image_loader_thread' = "running"
    /\ UNCHANGED <<tm_extraction_thread, tm_log, tm_cleanups>>

\* an ExtractionThread is installed in self.extraction_thread and started
\* (_start_extraction_thread, lines 169-184)
StartExtractionThread ==
    /\ tm_image_loader_thread # "None"
    /\ tm_extraction_thread = "None"
    /\ et_pc = "not_started"
    /\ tm_extraction_thread' = "thread"
    /\ ExtractRunStart
    /\ UNCHANGED <<tm_prefetcher_thread, tm_image_loader_thread, tm_log, tm_cleanups>>

\* ThreadManager.cleanup_threads(); the flag says whether the wait for the
\* extraction thread returned within its five seconds (the references to the
\* two worker threads are dropped whatever their waits returned)
CleanupThreads(extraction_in_time) ==
    LET prefetcher == tm_prefetcher_thread # "None" /\ isRunning(tm_prefetcher_thread)
        loader     == tm_image_loader_thread # "None" /\ isRunning(tm_image_loader_thread)
        extraction == tm_extraction_thread # "None" /\ extraction_isRunning
        ended      == extraction /\ extraction_in_time
    IN  /\ tm_cleanups' = tm_cleanups + 1
        /\ tm_log' = tm_log \o cleanup_calls(prefetcher, loader, extraction)
        \* PrefetcherWorker.stop
        /\ pf_is_running' = IF prefetcher THEN FALSE ELSE pf_is_running
        \* ImageLoaderWorker.stop
        /\ w_running' = IF loader THEN FALSE ELSE w_running
        /\ w_high' = IF loader /\ w_running THEN <<>> ELSE w_high
        /\ w_low' = IF loader /\ w_running THEN <<>> ELSE w_low
        \* _stop_extraction_thread: stop, wait; run() ends CANCELLED in time or not
        /\ et_running' = IF extraction THEN FALSE ELSE et_running
        /\ et_pc' = IF ended THEN "finished" ELSE et_pc
        /\ et_status' = IF ended THEN "CANCELLED" ELSE et_status
        /\ et_finished_queued' = IF ended THEN "CANCELLED" ELSE et_finished_queued
        \* lines 124-128
        /\ tm_prefetcher_thread' = "None"
        /\ tm_image_loader_thread' = "None"
        /\ tm_extraction_thread' = "None"
        /\ UNCHANGED <<fl_load_type, fl_cache, fl_status, et_next, fetch, varsExtract>>
        /\ UNCHANGED <<w_file_loader, w_image_files, w_processing, w_pnt_queued, w_pc, w_cur,
                       w_emitted, w_did, pool>>
        /\ UNCHANGED <<cpu_max_prefetch_pages, gpu_max_prefetch_pages, gpu_prefetch_range,
                       w_inbox, pf_inbox>>

\* =====================================================================
\*  Specifications
\* =====================================================================

vars == <<varsL2, varsL1, pin_requested, varsUi, ui_events, varsWorker, varsFetch, varsExtract, varsThreads,
          varsApp>>

\* FileLoader(path) of a given load type, and an ExtractionThread constructed
\* for it
FetchInit(load_type) ==
    /\ fl_load_type = load_type
    /\ fl_cache = {}
    /\ fl_status = "PENDING"
    /\ et_pc = "not_started"
    /\ et_status = "PENDING"
    /\ et_running = TRUE
    /\ et_next = 0
    /\ et_finished_queued = "none"
    /\ fetch = [f \in Fetchers |-> NoFetch]
    /\ ExtractIdle
    /\ ThreadsIdle

\* the controller, view and worker after construction, before any load_path
LoaderInit ==
    /\ loader_paths = <<>>
    /\ ui_pc = "idle"
    /\ current_file_path = ""
    /\ app_file_loader = 0
    /\ display_keys = <<>>
    /\ prepare_queue = <<>>
    /\ ui_events = <<>>
    /\ w_file_loader = 0
    /\ w_image_files = 0
    /\ w_high = <<>>
    /\ w_low = <<>>
    /\ w_processing = {}
    /\ w_running = TRUE
    /\ w_pnt_queued = FALSE
    /\ w_pc = "idle"
    /\ w_cur = NoResult
    /\ w_emitted = {}
    /\ w_did = NothingDone
    /\ pool = <<>>

\* the variables of the controller, view, worker and FileLoader, left alone
varsLoader == <<varsUi, ui_events, varsWorker, varsFetch, varsExtract, varsThreads>>

\* memory psutil.virtual_memory().available reports (bytes)
AvailableMemory == {0, 2 * BytesPerMB, 3 * BytesPerMB, 8 * BytesPerMB}

\* ImageCache(settings_manager): __init__ ends with adjust_cache_size() when
\* dynamic_cache_resizing is set
ImageCacheInit ==
    \E minMB \in 0..1, maxMB \in 1..MaxCacheMB, dyn \in BOOLEAN, avail \in AvailableMemory :
        /\ ic_cache = <<>>
        /\ ic_current_size = 0
        /\ ic_min_cache_size = minMB * BytesPerMB
        /\ ic_max_cache_size = maxMB * BytesPerMB
        /\ ic_max_size = IF dyn
                         THEN Max(minMB * BytesPerMB, Min(avail \div 2, maxMB * BytesPerMB))
                         ELSE maxMB * BytesPerMB
        /\ ic_dynamic_resizing = dyn
        /\ ic_raised = FALSE
        /\ ic_last = [op |-> "init", key |-> -1, ok |-> TRUE]

\* the ImageCache of a viewer that is not used
ImageCacheIdle == InitL2(0, 1, FALSE)

\* the TextureCache of a viewer that is not used
TextureCacheIdle == InitL1(2) /\ current_page_index = 0

\* ---- SpecL2: any sequence of ImageCache calls
InitSpecL2 ==
    /\ AppInit
    /\ ImageCacheInit
    /\ TextureCacheIdle
    /\ pin_requested = {}
    /\ LoaderInit
    /\ FetchInit("folder")

NextL2 ==
    /\ \/ \E key \in Pages : ImageCacheGet(key)
       \/ \E key \in Pages, size \in BitmapSizes : ImageCacheSet(key, Bitmap(1, size))
       \/ \E start \in Pages, end \in 0..(MaxPage + 1) : ImageCacheEvictOutsideRange(start, end)
       \/ ImageCacheClear
       \/ \E key \in Pages : ImageCacheDelItem(key)
       \/ \E mb \in 0..MaxCacheMB : ImageCacheSetMaxSize(mb)
       \/ \E avail \in AvailableMemory : ImageCacheAdjustCacheSize(avail)
    /\ UNCHANGED <<varsL1, pin_requested, varsLoader, varsApp>>

SpecL2 == InitSpecL2 /\ [][NextL2]_vars

\* ---- SpecL1: any sequence of TextureCache calls
\* the texture keys of the opened path
TexKeys == {TexKey("A", i) : i \in Pages}

\* capacities offered to TextureCache
MaxL1Size == 3

\* AppState.current_page_index setter
SetCurrentPageIndex(value) ==
    /\ current_page_index # value
    /\ current_page_index' = value
    /\ UNCHANGED <<tc_cache, tc_max_size, tc_deleted_textures, tc_pinned_keys,
                   next_texture_id, tc_returned>>

\* OpenGLView._prepare_texture_internal: returns at once for a resident key,
\* else glGenTextures(1), then texture_cache.set
UploadTexture(key) ==
    /\ ~HasKey(tc_cache, key)
    /\ next_texture_id <= MaxTexId
    /\ TextureCacheSet(key, Texture(next_texture_id, key.path))
    /\ next_texture_id' = next_texture_id + 1

InitSpecL1 ==
    /\ AppInit
    /\ ImageCacheIdle
    /\ InitL1(MaxL1Size)
    /\ current_page_index = 0
    /\ pin_requested = {}
    /\ LoaderInit
    /\ FetchInit("folder")

NextL1 ==
    /\ \/ /\ \/ \E key \in TexKeys : UploadTexture(key)
             \/ \E key \in TexKeys : TextureCachePin(key)
             \/ \E key \in TexKeys : TextureCacheUnpin(key)
             \/ TextureCacheUnpinAll
             \/ \E n \in 1..MaxL1Size : TextureCacheSetMaxSize(n)
             \/ \E start \in Pages, end \in 1..(MaxPage + 1) :
                    start < end /\ TextureCacheEvictOutsideRange(start, end)
             \/ TextureCacheGetDeletedTextures
             \/ TextureCacheClear
          /\ UNCHANGED current_page_index
       \/ \E p \in Pages : SetCurrentPageIndex(p)
    /\ UNCHANGED <<varsL2, pin_requested, varsLoader, varsApp>>

SpecL1 == InitSpecL1 /\ [][NextL1]_vars

\* ---- SpecL1Set: the TextureCache calls where set is called by any caller,
\* also for a key that is resident
\* glGenTextures(1), then texture_cache.set(key, ...) without the test of
\* `key in self.texture_cache` that the two callers of the application make
StoreTexture(key) ==
    /\ next_texture_id <= MaxTexId
    /\ TextureCacheSet(key, Texture(next_texture_id, key.path))
    /\ next_texture_id' = next_texture_id + 1

NextL1Set ==
    /\ \/ /\ \/ \E key \in TexKeys : StoreTexture(key)
             \/ \E key \in TexKeys : TextureCachePin(key)
             \/ \E key \in TexKeys : TextureCacheUnpin(key)
             \/ \E n \in 1..MaxL1Size : TextureCacheSetMaxSize(n)
             \/ \E start \in Pages, end \in 1..(MaxPage + 1) :
                    start < end /\ TextureCacheEvictOutsideRange(start, end)
             \/ TextureCacheGetDeletedTextures
             \/ TextureCacheClear
          /\ UNCHANGED current_page_index
       \/ \E p \in Pages : SetCurrentPageIndex(p)
    /\ UNCHANGED <<varsL2, pin_requested, varsLoader, varsApp>>

SpecL1Set == InitSpecL1 /\ [][NextL1Set]_vars

\* ---- SpecL1Order: uploads, lookups and pins that reorder and fill the cache
NextL1Order ==
    /\ \/ /\ \/ \E key \in TexKeys : UploadTexture(key)
             \/ \E key \in TexKeys : TextureCacheGet(key)
             \/ \E key \in TexKeys : TextureCachePin(key)
             \/ \E key \in TexKeys : TextureCacheUnpin(key)
             \/ \E n \in 1..MaxL1Size : TextureCacheSetMaxSize(n)
             \/ TextureCacheGetDeletedTextures
          /\ UNCHANGED current_page_index
       \/ \E p \in Pages : SetCurrentPageIndex(p)
    /\ UNCHANGED <<varsL2, pin_requested, varsLoader, varsApp>>

SpecL1Order == InitSpecL1 /\ [][NextL1Order]_vars

\* ---- SpecL1Pin: SpecL1 with the history of the pin() calls
NextL1Pin ==
    /\ \/ \E key \in TexKeys : UploadTexture(key) /\ UNCHANGED pin_requested
       \/ \E key \in TexKeys : TextureCachePin(key) /\ pin_requested' = pin_requested \cup {key}
       \/ \E key \in TexKeys : TextureCacheUnpin(key) /\ pin_requested' = pin_requested \ {key}
       \/ TextureCacheUnpinAll /\ pin_requested' = {}
       \/ \E n \in 1..MaxL1Size : TextureCacheSetMaxSize(n) /\ UNCHANGED pin_requested
       \/ \E start \in Pages, end \in 1..(MaxPage + 1) :
              start < end /\ TextureCacheEvictOutsideRange(start, end) /\ UNCHANGED pin_requested
       \/ TextureCacheClear /\ pin_requested' = {}
    /\ UNCHANGED <<varsL2, current_page_index, varsLoader, varsApp>>

SpecL1Pin == InitSpecL1 /\ [][NextL1Pin]_vars

\* ---- SpecLoader: load_path on the UI thread against the loader thread, the
\* thread pool and the signals queued between them
LoaderPages == 0..1

InitSpecLoader ==
    /\ AppInit
    /\ ImageCacheIdle
    /\ TextureCacheIdle
    /\ pin_requested = {}
    /\ LoaderInit
    /\ FetchInit("folder")

\* what a step of the loader thread or of a view slot leaves alone
AppIdle == UNCHANGED <<varsAppState, varsPrefetcher, varsFirst>>

NextLoader ==
    /\ \/ /\ \/ \E path \in Paths : LoadPathBegin(path, 0) /\ UNCHANGED w_file_loader
                                     /\ UNCHANGED <<w_image_files, w_high, w_low,
                                                    w_processing, w_pnt_queued>>
             \/ LoadPathCreate /\ UNCHANGED varsL2
             \/ LoadPathFinish /\ UNCHANGED varsL2
             \/ /\ \E p \in LoaderPages, priority \in {PRIORITY_VIEW, PRIORITY_DISPLAY} :
                      on_request_load_image(p, priority)
                /\ UNCHANGED <<varsL2, varsL1, varsUi>>
                /\ AppIdle
          /\ w_emitted' = {}
          /\ w_did' = NothingDone
          /\ UNCHANGED <<ui_events, w_running, w_pc, w_cur, pool>>
       \/ /\ on_image_loaded
          /\ w_emitted' = {}
          /\ w_did' = NothingDone
          /\ AppIdle
          /\ UNCHANGED <<varsL1, w_file_loader, w_image_files, w_high, w_low,
                         w_processing, w_running, w_pnt_queued, w_pc, w_cur, pool>>
       \/ /\ paintGL
          /\ w_emitted' = {}
          /\ w_did' = NothingDone
          /\ UNCHANGED <<ui_events, w_file_loader, w_image_files, w_high, w_low,
                         w_processing, w_running, w_pnt_queued, w_pc, w_cur, pool>>
       \/ /\ \E p \in LoaderPages : AddTaskFromPrefetcher(p)
          /\ w_emitted' = {}
          /\ w_did' = NothingDone
          /\ AppIdle
          /\ UNCHANGED <<varsL2, varsL1, varsUi, ui_events>>
       \/ ProcessNextTask /\ AppIdle /\ UNCHANGED <<varsL2, varsL1, varsUi, ui_events>>
       \/ /\ \E i \in 1..Len(pool), outcome \in {"image", "none", "error"} :
                DeliverResult(i, outcome)
          /\ AppIdle
          /\ UNCHANGED <<varsL2, varsL1, varsUi, ui_events>>
       \/ OnImageDecoded /\ AppIdle /\ UNCHANGED <<varsL1, varsUi>>
    /\ UNCHANGED <<pin_requested, varsFetch, varsExtract, varsThreads, varsSettings, before_load, first_prepared, pf_last,
                   calc>>

SpecLoader == InitSpecLoader /\ [][NextLoader]_vars

\* ---- SpecWorker: the loader thread alone with what feeds it, without the
\* frames of the view; SpecWorkerFair adds the scheduling
WorkerRest ==
    UNCHANGED <<pin_requested, varsFetch, varsExtract, varsThreads, varsSettings, before_load, first_prepared,
                pf_last, calc>>

\* the user opens a folder, or a view asks for a page
WorkerRequests ==
    /\ \/ \E path \in Paths : LoadPathBegin(path, 0) /\ UNCHANGED w_file_loader
                                /\ UNCHANGED <<w_image_files, w_high, w_low,
                                               w_processing, w_pnt_queued>>
       \/ /\ \E p \in LoaderPages, priority \in {PRIORITY_VIEW, PRIORITY_DISPLAY} :
                on_request_load_image(p, priority)
          /\ UNCHANGED <<varsL2, varsL1, varsUi>>
          /\ AppIdle
       \/ /\ \E p \in LoaderPages : AddTaskFromPrefetcher(p)
          /\ AppIdle
          /\ UNCHANGED <<varsL2, varsL1, varsUi>>
    /\ w_emitted' = {}
    /\ w_did' = NothingDone
    /\ UNCHANGED <<ui_events, w_running, w_pc, w_cur, pool>>
    /\ WorkerRest

\* load_path goes on to its end on the UI thread
WorkerLoadPath ==
    /\ LoadPathCreate \/ LoadPathFinish
    /\ UNCHANGED varsL2
    /\ w_emitted' = {}
    /\ w_did' = NothingDone
    /\ UNCHANGED <<ui_events, w_running, w_pc, w_cur, pool>>
    /\ WorkerRest

\* the UI thread runs the slots of a queued image_loaded
WorkerImageLoaded ==
    /\ on_image_loaded
    /\ w_emitted' = {}
    /\ w_did' = NothingDone
    /\ AppIdle
    /\ UNCHANGED <<varsL1, w_file_loader, w_image_files, w_high, w_low,
                   w_processing, w_running, w_pnt_queued, w_pc, w_cur, pool>>
    /\ WorkerRest

\* the loader thread runs the queued process_next_task
WorkerDispatch ==
    /\ ProcessNextTask
    /\ AppIdle
    /\ UNCHANGED <<varsL2, varsL1, varsUi, ui_events>>
    /\ WorkerRest

\* a job of the pool ends and the loader thread receives its signal
WorkerDeliver ==
    /\ \E i \in 1..Len(pool), outcome \in {"image", "none", "error"} :
          DeliverResult(i, outcome)
    /\ AppIdle
    /\ UNCHANGED <<varsL2, varsL1, varsUi, ui_events>>
    /\ WorkerRest

\* the loader thread goes on to _on_image_decoded
WorkerDecoded ==
    /\ OnImageDecoded
    /\ AppIdle
    /\ UNCHANGED <<varsL1, varsUi>>
    /\ WorkerRest

NextWorker ==
    \/ WorkerRequests
    \/ WorkerLoadPath
    \/ WorkerImageLoaded
    \/ WorkerDispatch
    \/ WorkerDeliver
    \/ WorkerDecoded

SpecWorker == InitSpecLoader /\ [][NextWorker]_vars

\* Qt runs every queued call of the loader thread and of the UI thread, and
\* every job of the thread pool ends; the user and the views stop asking for
\* pages at some time
SpecWorkerFair ==
    /\ SpecWorker
    /\ <>[][~WorkerRequests]_vars
    /\ WF_vars(WorkerLoadPath)
    /\ WF_vars(WorkerImageLoaded)
    /\ WF_vars(WorkerDispatch)
    /\ WF_vars(WorkerDeliver)
    /\ WF_vars(WorkerDecoded)

\* ---- SpecNav: a folder of eight pages is opened and paged through with the
\* arrow keys, under every setting of the view mode
InitSpecNav ==
    /\ \E spread \in BOOLEAN, binding \in {"left", "right"}, first_single \in BOOLEAN :
           AppStateInit(spread, binding, first_single)
    /\ ImageCacheIdle
    /\ TextureCacheIdle
    /\ pin_requested = {}
    /\ LoaderInit
    /\ FetchInit("folder")

NextNav ==
    /\ \/ LoadPathBegin("L", 0) /\ UNCHANGED <<w_file_loader, w_image_files, w_high,
                                                w_low, w_processing, w_pnt_queued>>
       \/ LoadPathCreate /\ UNCHANGED varsL2
       \/ LoadPathFinish /\ UNCHANGED varsL2
       \/ \E direction \in {-1, 1} : Navigate(direction) /\ UNCHANGED varsL2
    /\ w_emitted' = {}
    /\ w_did' = NothingDone
    /\ UNCHANGED <<ui_events, w_running, w_pc, w_cur, pool>>
    /\ UNCHANGED <<pin_requested, varsFetch, varsExtract, varsThreads, varsSettings, before_load, first_prepared, pf_last,
                   calc>>

SpecNav == InitSpecNav /\ [][NextNav]_vars

\* ---- SpecPage: folders are opened on a requested page, as main does with
\* the page of the command line, and paged through with the arrow keys, the
\* seek bar and Home and End
\* the pages load_path is asked for are -1..MaxRequestedPage
MaxRequestedPage == 2

RequestedPages == (-1)..MaxRequestedPage

NextPage ==
    /\ \/ \E page \in RequestedPages :
             LoadPathBegin("A", page) /\ UNCHANGED <<w_file_loader, w_image_files, w_high,
                                                     w_low, w_processing, w_pnt_queued>>
       \/ LoadPathCreate /\ UNCHANGED varsL2
       \/ LoadPathFinish /\ UNCHANGED varsL2
       \/ \E direction \in {-1, 1} : Navigate(direction) /\ UNCHANGED varsL2
       \/ \E page_index \in RequestedPages : JumpToPage(page_index) /\ UNCHANGED varsL2
       \/ \E direction \in {-1, 1} : NavigateSinglePage(direction) /\ UNCHANGED varsL2
    /\ w_emitted' = {}
    /\ w_did' = NothingDone
    /\ UNCHANGED <<ui_events, w_running, w_pc, w_cur, pool>>
    /\ UNCHANGED <<pin_requested, varsFetch, varsExtract, varsThreads, varsSettings, before_load, first_prepared, pf_last,
                   calc>>

SpecPage == InitSpecNav /\ [][NextPage]_vars

\* ---- SpecOpen: load_path calls on paths with images, without images and
\* missing, against the loader thread and the view that fill the caches
OpenPaths == {"A", "B", "E", "X"}

\* the content load_path(path, page) finds when it is called
ContentAtCall(path, page) ==
    [called |-> TRUE, path |-> path, page |-> page,
     total_pages |-> total_pages, is_content_loaded |-> is_content_loaded,
     current_page_index |-> current_page_index,
     current_file_path |-> current_file_path,
     file_loader |-> app_file_loader,
     image_cache |-> ic_cache, texture_cache |-> tc_cache,
     file_loader_updated_count |-> file_loader_updated_count]

InitSpecOpen == InitSpecLoader

NextOpen ==
    /\ \/ /\ \/ \E path \in OpenPaths, page \in LoaderPages :
                      /\ LoadPathBegin(path, page)
                      /\ before_load' = ContentAtCall(path, page)
                      /\ UNCHANGED <<w_file_loader, w_image_files, w_high, w_low,
                                     w_processing, w_pnt_queued>>
             \/ LoadPathCreate /\ UNCHANGED varsL2
                               /\ before_load' = IF ui_pc' = "idle" THEN NoLoad
                                                 ELSE before_load
             \/ LoadPathFinish /\ UNCHANGED varsL2 /\ before_load' = NoLoad
          /\ w_emitted' = {}
          /\ w_did' = NothingDone
          /\ UNCHANGED <<ui_events, w_running, w_pc, w_cur, pool>>
       \/ /\ on_image_loaded
          /\ w_emitted' = {}
          /\ w_did' = NothingDone
          /\ AppIdle
          /\ UNCHANGED <<varsL1, w_file_loader, w_image_files, w_high, w_low,
                         w_processing, w_running, w_pnt_queued, w_pc, w_cur, pool,
                         before_load>>
       \/ /\ paintGL
          /\ w_emitted' = {}
          /\ w_did' = NothingDone
          /\ UNCHANGED <<ui_events, w_file_loader, w_image_files, w_high, w_low,
                         w_processing, w_running, w_pnt_queued, w_pc, w_cur, pool,
                         before_load>>
       \/ ProcessNextTask /\ AppIdle
                          /\ UNCHANGED <<varsL2, varsL1, varsUi, ui_events, before_load>>
       \/ /\ \E i \in 1..Len(pool) : DeliverResult(i, "image")
          /\ AppIdle
          /\ UNCHANGED <<varsL2, varsL1, varsUi, ui_events, before_load>>
       \/ OnImageDecoded /\ AppIdle /\ UNCHANGED <<varsL1, varsUi, before_load>>
    /\ UNCHANGED <<pin_requested, varsFetch, varsExtract, varsThreads, varsSettings, first_prepared, pf_last, calc>>

SpecOpen == InitSpecOpen /\ [][NextOpen]_vars

\* ---- SpecCold: a folder of four pages is opened cold on page 0 in single
\* page view, with the prefetcher, the loader thread, the decode pool and the
\* view running; no navigation follows
\* decode workers the settings offer
MaxWorkers == 2
\* the prefetch radii of the settings: CPU (L2) and GPU (L1)
ColdCpuRadius == 2
ColdGpuRadius == 1

InitSpecCold ==
    /\ \E workers \in 1..MaxWorkers : AppStart(FALSE, "right", FALSE, workers)
    /\ PrefetcherInit(TRUE, ColdCpuRadius, ColdGpuRadius)
    /\ InitL2(0, MaxCacheMB, FALSE)
    /\ InitL1(2 * ColdGpuRadius + 2) /\ current_page_index = 0
    /\ pin_requested = {}
    /\ LoaderInit
    /\ FetchInit("folder")

\* the steps of the UI thread
ColdUi ==
    /\ \/ /\ \/ /\ loader_paths = <<>>
                   /\ LoadPathBegin("F", 0)
                   /\ UNCHANGED <<w_file_loader, w_image_files, w_high, w_low,
                                  w_processing, w_pnt_queued>>
                \/ (LoadPathCreate /\ UNCHANGED varsL2)
                \/ (LoadPathFinish /\ UNCHANGED varsL2)
             /\ UNCHANGED <<ui_events, first_prepared, pf_last>>
          \/ /\ on_image_loaded
             /\ AppIdle
             /\ UNCHANGED <<varsL1, w_file_loader, w_image_files, w_high, w_low,
                            w_processing, w_pnt_queued, first_prepared, pf_last>>
          \/ /\ paintGL
             /\ first_prepared' =
                    LET keys == prepare_all(prepare_queue, PaintState).prepared
                    IN  IF first_prepared = -1 /\ keys # <<>>
                        THEN PageIndexOf(keys[1]) ELSE first_prepared
             /\ pf_last' = IF is_first_image_ready' # is_first_image_ready
                           THEN NoPass ELSE pf_last
             /\ UNCHANGED <<ui_events, w_file_loader, w_image_files, w_high, w_low,
                            w_processing, w_pnt_queued>>
    /\ w_emitted' = {}
    /\ w_did' = NothingDone
    /\ UNCHANGED <<w_running, w_pc, w_cur, pool>>

\* the steps of the prefetcher thread
PrefetcherStep(repeat) ==
    /\ PrefetcherHandle(repeat)
    /\ w_emitted' = {}
    /\ w_did' = NothingDone
    /\ UNCHANGED <<varsUi, ui_events, w_file_loader, w_image_files, w_high, w_low,
                   w_processing, w_running, w_pnt_queued, w_pc, w_cur, pool,
                   varsAppState, varsFirst, first_prepared>>

ColdPrefetcher == PrefetcherStep(FALSE) /\ UNCHANGED pf_last

\* the steps of the loader thread
ColdLoader ==
    /\ \/ (WorkerHandleInbox /\ UNCHANGED <<varsL1, varsUi>>)
       \/ /\ \/ (ProcessNextTask /\ UNCHANGED ui_events)
             \/ (\E i \in 1..Len(pool) : DeliverResult(i, "image") /\ UNCHANGED ui_events)
          /\ UNCHANGED <<varsL2, varsL1, varsUi, varsPrefetcher>>
       \/ (OnImageDecoded /\ UNCHANGED <<varsL1, varsUi, varsPrefetcher>>)
    /\ UNCHANGED <<varsAppState, varsFirst, first_prepared, pf_last>>

NextCold ==
    /\ ColdUi \/ ColdPrefetcher \/ ColdLoader
    /\ UNCHANGED <<pin_requested, varsFetch, varsExtract, varsThreads, varsSettings, before_load, calc>>

SpecCold == InitSpecCold /\ [][NextCold]_vars

\* a frame of the cold open with uploads to do whose GL calls raise
UploadRaises ==
    /\ prepare_queue # <<>>
    /\ \E gl \in GlOutcomes \ {"ok"} :
          /\ Frame(gl)
          /\ first_prepared' =
                 LET keys == prepare_each(prepare_queue, PaintState, gl).prepared
                 IN  IF first_prepared = -1 /\ keys # <<>>
                     THEN PageIndexOf(keys[1]) ELSE first_prepared
    /\ pf_last' = IF is_first_image_ready' # is_first_image_ready
                  THEN NoPass ELSE pf_last
    /\ w_emitted' = {}
    /\ w_did' = NothingDone
    /\ UNCHANGED <<ui_events, w_file_loader, w_image_files, w_high, w_low,
                   w_processing, w_pnt_queued, w_running, w_pc, w_cur, pool>>

\* the cold open on a machine whose GL calls may raise
NextUpload ==
    /\ ColdUi \/ UploadRaises \/ ColdPrefetcher \/ ColdLoader
    /\ UNCHANGED <<pin_requested, varsFetch, varsExtract, varsThreads, varsSettings, before_load, calc>>

SpecUpload == InitSpecCold /\ [][NextUpload]_vars

\* ---- SpecRadii: the application started on a settings file, no folder
\* open; the user works with the settings dialog and the prefetcher handles
\* the updates it is sent
ConfigFiles ==
    [cpu_max_prefetch_pages : FileValues, max_prefetch_pages : LegacyValues,
     gpu_max_prefetch_pages : FileValues, gpu_texture_cache_size : LegacyValues,
     gpu_cache_page_count : LegacyValues]

InitSpecRadii ==
    /\ \E file \in ConfigFiles :
          LET loaded == load_settings(file)
          IN  /\ AppStartWith(FALSE, "right", FALSE, parallel_decoding_workers, loaded)
              /\ PrefetcherInit(TRUE, loaded.cpu_max_prefetch_pages,
                                loaded.gpu_max_prefetch_pages)
              /\ InitL1(2 * loaded.gpu_max_prefetch_pages + 2)
    /\ InitL2(0, MaxCacheMB, FALSE)
    /\ current_page_index = 0
    /\ pin_requested = {}
    /\ LoaderInit
    /\ FetchInit("folder")

\* what a step of the dialog leaves alone
RadiiRest ==
    UNCHANGED <<pin_requested, ui_events, varsWorker, varsFetch, varsExtract, varsThreads, varsAppState,
                is_spread_view, binding_direction, spread_view_first_page_single,
                decoding_workers, before_load, varsFirst, first_prepared, pf_last, calc>>

RadiiDialog ==
    /\ \/ (pf_inbox = <<>> /\ OpenSettingsDialog)
       \/ \E v \in 1..MaxRadius : SetCpuSpin(v)
       \/ \E v \in 1..MaxRadius : SetGpuSpin(v)
       \/ on_reset_cache_settings
       \/ reject_settings
    /\ UNCHANGED <<varsL2, varsL1, varsUi, varsPrefetcher>>
    /\ RadiiRest

RadiiAccept == accept_settings /\ RadiiRest

RadiiPrefetcher ==
    /\ PrefetcherStep(FALSE)
    /\ UNCHANGED <<pf_last, pin_requested, varsFetch, varsExtract, varsThreads, varsSettings, before_load, calc>>

NextRadii == RadiiDialog \/ RadiiAccept \/ RadiiPrefetcher

SpecRadii == InitSpecRadii /\ [][NextRadii]_vars

\* what no step of the cold open changes
ColdRest == UNCHANGED <<pin_requested, varsFetch, varsExtract, varsThreads, varsSettings, before_load, calc>>

\* The steps of the handlers, named by the queue each one consumes: the
\* load_path in progress, a queued on_image_loaded, a frame with textures to
\* prepare, a queued slot of the prefetcher
LoadTurn ==
    /\ ui_pc # "idle" \/ (loader_paths = <<>> /\ ~is_loading)
    /\ \E pc \in {"idle", "creating", "emitting"} : pc # ui_pc /\ ui_pc' = pc

ImageLoadedTurn ==
    /\ ui_pc = "idle" /\ ui_events # <<>>
    /\ ui_events' = Tail(ui_events)

FrameTurn ==
    /\ ui_pc = "idle" /\ prepare_queue # <<>>
    /\ next_texture_id + Len(prepare_queue) - 1 <= MaxTexId
    /\ prepare_queue' = <<>>

PrefetcherTurn ==
    /\ pf_inbox # <<>>
    /\ pf_inbox' = Tail(pf_inbox)

\* The cold open under fair scheduling: the UI thread, the prefetcher thread
\* and the loader thread each run a Qt event loop, which handles every event
\* queued to it (prepare_texture schedules a frame with update()), and the
\* pool hands back every decode it was given.
SpecColdFair ==
    /\ SpecCold
    /\ WF_ui_pc(LoadTurn)
    /\ WF_ui_events(ImageLoadedTurn)
    /\ WF_prepare_queue(FrameTurn)
    /\ WF_pf_inbox(PrefetcherTurn)
    /\ WF_vars(ColdLoader /\ ColdRest)

\* ---------------------------------------------------------------------
\*  The cold open followed by changes of gpu_max_prefetch_pages in the
\*  settings dialog
\* ---------------------------------------------------------------------

\* the dialog lowers the GPU radius the application started with, once
SettingsUi ==
    /\ gpu_max_prefetch_pages = ColdGpuRadius
    /\ \A i \in 1..Len(pf_inbox) : pf_inbox[i].slot # "update_prefetch_settings"
    /\ \E gpu \in 0..(ColdGpuRadius - 1) :
          HandleCacheSettingsChange(cpu_max_prefetch_pages, gpu)
    /\ w_emitted' = {}
    /\ w_did' = NothingDone
    /\ UNCHANGED <<ui_events, w_file_loader, w_image_files, w_high, w_low,
                   w_processing, w_running, w_pnt_queued, w_pc, w_cur, pool,
                   varsAppState, varsFirst, first_prepared, pf_last>>

NextSettings ==
    /\ ColdUi \/ SettingsUi \/ ColdPrefetcher \/ ColdLoader
    /\ ColdRest

SpecSettings == InitSpecCold /\ [][NextSettings]_vars

\* ---------------------------------------------------------------------
\*  The cold open with the calls of on_page_index_changed recorded
\* ---------------------------------------------------------------------

\* the arguments on_page_index_changed gets from the slot at the head of the
\* queue: its own, or those update_prefetch_settings and on_context_changed
\* read from app_state
CallIndex ==
    IF Head(pf_inbox).slot = "on_page_index_changed"
    THEN Head(pf_inbox).index ELSE current_page_index

CallSpread ==
    IF Head(pf_inbox).slot = "on_page_index_changed"
    THEN Head(pf_inbox).is_spread ELSE is_spread_view

\* the call at the head of the queue repeats the last one: same arguments,
\* and L2, L1, the two lanes and the in-flight set are as that call left them
IsRepeat ==
    /\ pf_last.index = CallIndex
    /\ pf_last.is_spread = CallSpread
    /\ pf_last.l2 = ic_cache
    /\ pf_last.l1 = tc_cache
    /\ pf_last.high = w_high
    /\ pf_last.low = w_low
    /\ pf_last.processing = w_processing

\* the steps of the prefetcher thread; what a repeated call emits is marked
RepeatPrefetcher ==
    /\ pf_inbox # <<>>
    /\ \/ (IsRepeat /\ PrefetcherStep(TRUE))
       \/ (~IsRepeat /\ PrefetcherStep(FALSE))
    /\ pf_last' = [index |-> CallIndex, is_spread |-> CallSpread, l2 |-> ic_cache',
                   l1 |-> tc_cache', high |-> w_high, low |-> w_low,
                   processing |-> w_processing]

NextRepeat ==
    /\ ColdUi \/ RepeatPrefetcher \/ ColdLoader
    /\ ColdRest

SpecRepeat == InitSpecCold /\ [][NextRepeat]_vars

\* ---- SpecFetch: get_image_data calls on a FileLoader against the
\* ExtractionThread that fills its L3 cache
InitSpecFetch ==
    /\ AppInit
    /\ ImageCacheIdle
    /\ TextureCacheIdle
    /\ pin_requested = {}
    /\ LoaderInit
    /\ \E load_type \in {"archive", "folder"} : FetchInit(load_type)

NextFetch ==
    /\ \/ \E f \in Fetchers, entry \in Entries,
             priority \in {PRIORITY_VIEW, PRIORITY_DISPLAY, PRIORITY_PREFETCH} :
              GetImageData(f, entry, priority)
       \/ \E f \in Fetchers : GetImageDataWoken(f)
       \/ \E f \in Fetchers, readable \in BOOLEAN : GetImageDataFallback(f, readable)
       \/ \E f \in Fetchers : GetImageDataReturn(f)
       \/ \E status \in ExtractionStatus : SetExtractionStatus(status)
       \/ ExtractionRunStart
       \/ \E readable \in BOOLEAN : ExtractionRunFile(readable)
       \/ ExtractionRunEnd
       \/ ExtractionStop
       \/ OnExtractionFinished
    /\ UNCHANGED <<varsL2, varsL1, pin_requested, varsUi, ui_events, varsWorker, varsExtract, varsThreads,
               varsApp>>

SpecFetch == InitSpecFetch /\ [][NextFetch]_vars

\* what no step of get_image_data and of the extraction changes
FetchRest ==
    UNCHANGED <<varsL2, varsL1, pin_requested, varsUi, ui_events, varsWorker, varsExtract, varsThreads,
               varsApp>>

\* get_image_data and the extraction under fair scheduling: a thread that was
\* woken or is past the lock goes on, the extraction thread runs to its end,
\* and the UI thread handles the queued finished_with_status
SpecFetchFair ==
    /\ SpecFetch
    /\ \A f \in Fetchers :
          /\ WF_vars(GetImageDataWoken(f) /\ FetchRest)
          /\ WF_vars((\E readable \in BOOLEAN : GetImageDataFallback(f, readable))
                        /\ FetchRest)
          /\ WF_vars(GetImageDataReturn(f) /\ FetchRest)
    /\ WF_vars(ExtractionRunStart /\ FetchRest)
    /\ WF_vars((\E readable \in BOOLEAN : ExtractionRunFile(readable)) /\ FetchRest)
    /\ WF_vars(ExtractionRunEnd /\ FetchRest)
    /\ WF_vars(OnExtractionFinished /\ FetchRest)

\* ---- SpecCalc: _calculate_pages_for_prefetch on every argument list
\* largest max_index and largest distance handed to the function
MaxIndex == 5
MaxDistance == 3

InitSpecCalc ==
    /\ ImageCacheIdle
    /\ TextureCacheIdle
    /\ pin_requested = {}
    /\ LoaderInit
    /\ FetchInit("folder")
    /\ total_pages = 0
    /\ is_content_loaded = FALSE
    /\ is_loading = FALSE
    /\ requested_page = 0
    /\ is_spread_view = FALSE
    /\ binding_direction = "right"
    /\ spread_view_first_page_single = FALSE
    /\ decoding_workers = parallel_decoding_workers
    /\ settings = NoSettings
    /\ dialog = NoDialog
    /\ file_loader_updated_count = 0
    /\ error_dialog_count = 0
    /\ before_load = NoLoad
    /\ PrefetcherStopped
    /\ is_first_image_handled = FALSE
    /\ is_first_image_ready = FALSE
    /\ first_prepared = -1
    /\ pf_last = NoPass
    /\ \E max_index \in 0..MaxIndex, distance \in 0..MaxDistance, is_spread \in BOOLEAN :
         \E current_index \in 0..max_index :
           calc = [NoCalc EXCEPT !.current_index = current_index, !.distance = distance,
                                 !.max_index = max_index, !.is_spread = is_spread]

NextCalc ==
    /\ CalculatePagesForPrefetch
    /\ UNCHANGED <<varsL2, varsL1, pin_requested, varsLoader, varsAppState,
                   varsSettings, before_load, varsPrefetcher, varsFirst, first_prepared, pf_last>>

SpecCalc == InitSpecCalc /\ [][NextCalc]_vars

\* ---- SpecClosest: _find_closest_folder_index on every list of folders, every
\* list of unextracted folders and every current page
\* the fields of the FileLoader and of the thread outside the folder choice
FetchFields(load_type) ==
    /\ fl_load_type = load_type
    /\ fl_cache = {}
    /\ fl_status = "PENDING"
    /\ et_pc = "not_started"
    /\ et_status = "PENDING"
    /\ et_running = TRUE
    /\ et_next = 0
    /\ et_finished_queued = "none"
    /\ fetch = [f \in Fetchers |-> NoFetch]

InitSpecClosest ==
    /\ AppInit
    /\ ImageCacheIdle
    /\ TextureCacheIdle
    /\ pin_requested = {}
    /\ LoaderInit
    /\ FetchFields("archive")
    /\ ThreadsIdle
    /\ \E total \in 1..(MaxFile + 1) :
         \E indices \in FolderStartIndices(total) :
           \E unextracted \in UnextractedLists(Len(indices)), page \in 0..(total - 1) :
              /\ et_folder_indices = indices
              /\ et_total_files = total
              /\ et_unextracted = unextracted
              /\ et_current_page = page
              /\ et_target = NoFolder
              /\ et_files = <<>>
              /\ et_first_file_emitted = FALSE
              /\ et_attempted = <<>>
              /\ et_did = NoExtraction

\* a call of _find_closest_folder_index on the fields of the thread
FindClosestFolderIndex ==
    /\ et_did = NoExtraction
    /\ et_target' = find_closest_folder_index(et_unextracted, et_folder_indices,
                                              et_total_files, et_current_page)
    /\ et_did' = [op |-> "_find_closest_folder_index", file |-> et_current_page, woke |-> {}]
    /\ UNCHANGED <<et_folder_indices, et_total_files, et_unextracted, et_current_page,
                   et_files, et_first_file_emitted, et_attempted>>

NextClosest ==
    /\ FindClosestFolderIndex
    /\ UNCHANGED <<varsL2, varsL1, pin_requested, varsUi, ui_events, varsWorker, varsFetch,
                   varsThreads, varsApp>>

SpecClosest == InitSpecClosest /\ [][NextClosest]_vars

\* ---- SpecExtract: the run of an ExtractionThread over an archive of
\* several folders, with page changes, stop, and get_image_data calls of the
\* decode threads on the same FileLoader
\* the last file of the archives extracted (files are 0..MaxExtractFile)
MaxExtractFile == 2

ExtractFileCount == MaxExtractFile + 1

InitSpecExtract ==
    /\ AppInit
    /\ ImageCacheIdle
    /\ TextureCacheIdle
    /\ pin_requested = {}
    /\ LoaderInit
    /\ FetchFields("archive")
    /\ ThreadsIdle
    /\ \E indices \in FolderStartIndices(ExtractFileCount) :
          ExtractionThreadInit(indices, ExtractFileCount)

\* what no step of the extraction and of get_image_data changes
ExtractRest ==
    UNCHANGED <<varsL2, varsL1, pin_requested, varsUi, ui_events, varsWorker, varsThreads,
                varsApp>>

\* the steps of the extraction thread inside run()
ExtractRun ==
    \/ ExtractRunStart
    \/ ExtractChoose
    \/ \E outcome \in ReadOutcomes : ExtractMember(outcome)
    \/ ExtractFolderDone
    \/ ExtractRunEnd

\* a display fetch of the last file by a decode thread, from its call to its
\* return
ExtractFetch ==
    /\ \/ \E f \in Fetchers : GetImageData(f, MaxExtractFile, PRIORITY_DISPLAY)
       \/ \E f \in Fetchers : GetImageDataWoken(f)
       \/ \E f \in Fetchers, readable \in BOOLEAN : GetImageDataFallback(f, readable)
       \/ \E f \in Fetchers : GetImageDataReturn(f)
    /\ et_did' = NoExtraction
    /\ UNCHANGED <<et_folder_indices, et_total_files, et_unextracted, et_current_page,
                   et_target, et_files, et_first_file_emitted, et_attempted>>

\* the FileLoader is told that the extraction runs
ExtractStatusRunning ==
    /\ fl_status = "PENDING"
    /\ SetExtractionStatus("RUNNING")
    /\ et_did' = NoExtraction
    /\ UNCHANGED <<et_folder_indices, et_total_files, et_unextracted, et_current_page,
                   et_target, et_files, et_first_file_emitted, et_attempted>>

\* page_index_changed reaches update_current_page while the thread lives
ExtractPageChanged ==
    /\ et_pc # "finished"
    /\ \E new_index \in 0..MaxExtractFile :
          new_index # et_current_page /\ UpdateCurrentPage(new_index)

NextExtract ==
    /\ \/ ExtractRun
       \/ ExtractStop
       \/ ExtractPageChanged
       \/ ExtractFetch
       \/ ExtractStatusRunning
    /\ ExtractRest

SpecExtract == InitSpecExtract /\ [][NextExtract]_vars

\* the same where the extraction thread is scheduled as any running QThread
\* is: it takes its next step
SpecExtractFair == SpecExtract /\ WF_vars(ExtractRun /\ ExtractRest)

\* ---- SpecRead: the same run and the same display fetches where a call of
\* reader.read_file is a stretch of time: a thread enters it in one step and
\* leaves it in a later one, and other threads run in between
\* run(), a member that L3 lacks: the lock is released and read_file entered
ExtractReadBegin ==
    LET target_file == Head(et_files)
    IN  /\ et_pc = "member"
        /\ et_running
        /\ et_files # <<>>
        /\ target_file \notin fl_cache
        /\ et_pc' = "reading"
        /\ et_did' = [op |-> "read_file", file |-> target_file, woke |-> {}]
        /\ UNCHANGED <<et_folder_indices, et_total_files, et_unextracted, et_current_page,
                       et_target, et_files, et_first_file_emitted, et_attempted>>
        /\ UNCHANGED <<fl_load_type, fl_cache, fl_status, et_status, et_running, et_next,
                       et_finished_queued, fetch>>

\* run(), read_file returns or raises: bytes are stored in L3 and followed by
\* wakeAll, and the for loop goes to its next member
ExtractReadEnd(outcome) ==
    LET target_file == Head(et_files)
        stored      == outcome = "data"
        waiting     == {f \in Fetchers : fetch[f].pc = "waiting"}
    IN  /\ et_pc = "reading"
        /\ et_pc' = "member"
        /\ et_files' = Tail(et_files)
        /\ et_attempted' = Append(et_attempted, target_file)
        /\ fl_cache' = IF stored THEN fl_cache \cup {target_file} ELSE fl_cache
        /\ et_first_file_emitted' = (et_first_file_emitted \/ stored)
        /\ fetch' = IF stored THEN wakeAll(fetch) ELSE fetch
        /\ et_did' = [op |-> outcome, file |-> target_file,
                      woke |-> IF stored THEN waiting ELSE {}]
        /\ UNCHANGED <<et_folder_indices, et_total_files, et_unextracted, et_current_page,
                       et_target>>
        /\ UNCHANGED <<fl_load_type, fl_status, et_status, et_running, et_next,
                       et_finished_queued>>

\* run(), a member that L3 holds already is passed over
ExtractMemberCached ==
    /\ et_files # <<>>
    /\ Head(et_files) \in fl_cache
    /\ ExtractMember("data")

\* get_image_data past the lock on an archive: reader.read_file is entered
GetImageDataReadBegin(f) ==
    /\ fetch[f].pc = "fallback"
    /\ fl_load_type = "archive"
    /\ fetch' = [fetch EXCEPT ![f].pc = "reading"]
    /\ UNCHANGED <<fl_load_type, fl_cache, fl_status, et_pc, et_status, et_running,
                   et_next, et_finished_queued>>

\* get_image_data, read_file has returned: data is stored in L3 and returned
GetImageDataReadEnd(f, readable) ==
    /\ fetch[f].pc = "reading"
    /\ fetch' = [fetch EXCEPT ![f].pc = "done",
                              ![f].result = IF readable THEN "read" ELSE "none"]
    /\ fl_cache' = IF readable THEN fl_cache \cup {fetch[f].entry} ELSE fl_cache
    /\ UNCHANGED <<fl_load_type, fl_status, et_pc, et_status, et_running, et_next,
                   et_finished_queued>>

\* the steps of the extraction thread inside run(), reads begun and ended
ReadRun ==
    \/ ExtractRunStart
    \/ ExtractChoose
    \/ ExtractMemberCached
    \/ ExtractReadBegin
    \/ \E outcome \in ReadOutcomes : ExtractReadEnd(outcome)
    \/ ExtractFolderDone
    \/ ExtractRunEnd

\* a display fetch of the last file by a decode thread, its read begun and ended
ReadFetch ==
    /\ \/ \E f \in Fetchers : GetImageData(f, MaxExtractFile, PRIORITY_DISPLAY)
       \/ \E f \in Fetchers : GetImageDataWoken(f)
       \/ \E f \in Fetchers : GetImageDataReadBegin(f)
       \/ \E f \in Fetchers, readable \in BOOLEAN : GetImageDataReadEnd(f, readable)
       \/ \E f \in Fetchers : GetImageDataReturn(f)
    /\ et_did' = NoExtraction
    /\ UNCHANGED <<et_folder_indices, et_total_files, et_unextracted, et_current_page,
                   et_target, et_files, et_first_file_emitted, et_attempted>>

NextRead ==
    /\ \/ ReadRun
       \/ ExtractStop
       \/ ReadFetch
       \/ ExtractStatusRunning
    /\ ExtractRest

SpecRead == InitSpecExtract /\ [][NextRead]_vars

\* ---- SpecShutdown: setup_threads, an extraction thread, and cleanup_threads
\* called up to MaxCleanups times (closeEvent and main both call it)
MaxCleanups == 3

InitSpecShutdown ==
    /\ AppStart(FALSE, "right", FALSE, parallel_decoding_workers)
    /\ PrefetcherInit(TRUE, ColdCpuRadius, ColdGpuRadius)
    /\ ImageCacheIdle
    /\ TextureCacheIdle
    /\ pin_requested = {}
    /\ LoaderInit
    /\ FetchFields("archive")
    /\ ThreadsIdle
    /\ \E indices \in FolderStartIndices(ExtractFileCount) :
          ExtractionThreadInit(indices, ExtractFileCount)

\* what the threads and cleanup_threads leave alone
ShutdownRest ==
    UNCHANGED <<varsL2, varsL1, pin_requested, varsUi, ui_events, varsAppState, varsSettings,
                before_load, varsFirst, first_prepared, pf_last, calc>>

\* the fields of the two workers
WorkerFields == <<varsWorker, varsPrefetcher>>

NextShutdown ==
    /\ \/ SetupThreads /\ UNCHANGED <<varsFetch, varsExtract, WorkerFields>>
       \/ StartExtractionThread /\ UNCHANGED WorkerFields
       \/ (ExtractRun \/ ExtractPageChanged) /\ UNCHANGED <<varsThreads, WorkerFields>>
       \/ /\ tm_cleanups < MaxCleanups
          /\ \E extraction_in_time \in BOOLEAN : CleanupThreads(extraction_in_time)
    /\ ShutdownRest

SpecShutdown == InitSpecShutdown /\ [][NextShutdown]_vars


\* =====================================================================
\*  Properties of the caches
\* =====================================================================


PositionOf(c, k) == IndexOf(c, k)

\* C1: in every state reachable by ImageCache calls, the bytes of the cached
\* bitmaps add up to at most the effective capacity max_size, or the cache is
\* empty.
C1_L2WithinCapacity == SumSizes(ic_cache) <= ic_max_size \/ ic_cache = <<>>

\* an insert that filled the cache to exactly its capacity with two bitmaps
C1_Witness ==
    /\ ic_last.op = "set" /\ ic_last.ok
    /\ Len(ic_cache) >= 2
    /\ SumSizes(ic_cache) = ic_max_size

\* C2 (as claimed): the number of L1 entries is at most max_size, or every
\* remaining entry is pinned.
C2_L1WithinCapacityOrPinned ==
    \/ Len(tc_cache) <= tc_max_size
    \/ \A i \in 1..Len(tc_cache) : tc_cache[i].key \in tc_pinned_keys

\* a step of one of the calls that evict by capacity or by range
EvictingCall ==
    /\ KeysOf(tc_cache') # KeysOf(tc_cache)
    /\ \/ \E key \in TexKeys : UploadTexture(key)
       \/ \E n \in 1..MaxL1Size : TextureCacheSetMaxSize(n)
       \/ \E start \in Pages, end \in 1..(MaxPage + 1) : TextureCacheEvictOutsideRange(start, end)

\* C8: capacity eviction and evict_outside_range never remove a pinned key,
\* and the texture id of a pinned resident key is neither pending deletion
\* nor in the list get_deleted_textures() returned.
C8_PinnedNeverDeleted ==
    [][ /\ EvictingCall =>
              \A i \in 1..Len(tc_cache) :
                  tc_cache[i].key \in tc_pinned_keys =>
                      /\ HasKey(tc_cache', tc_cache[i].key)
                      /\ tc_cache'[IndexOf(tc_cache', tc_cache[i].key)].value = tc_cache[i].value
        /\ \A i \in 1..Len(tc_cache') :
              tc_cache'[i].key \in tc_pinned_keys' =>
                  /\ tc_cache'[i].value.texture_id \notin Range(tc_deleted_textures')
                  /\ tc_cache'[i].value.texture_id \notin Range(tc_returned')
      ]_vars

\* a drain returned evicted textures while the key farthest from the current
\* page stayed resident because it is pinned
C8_Witness ==
    /\ tc_returned # <<>>
    /\ Len(tc_cache) = tc_max_size
    /\ \E i \in 1..Len(tc_cache) :
          /\ tc_cache[i].key \in tc_pinned_keys
          /\ \A k \in TexKeys : get_distance(k, current_page_index)
                                   <= get_distance(tc_cache[i].key, current_page_index)

\* C9 (as claimed): a key pin() was called on, and that was not unpinned
\* since, is pinned once it is resident, also when it was inserted after the
\* pin() call.
C9_PinSticks ==
    \A k \in pin_requested : HasKey(tc_cache, k) => k \in tc_pinned_keys

\* C10: when an upload inserts a new key and the count exceeds max_size, every
\* victim is a non-pinned key at least as far from the current page as every
\* non-pinned key that stays, and older in the cache order when equally far;
\* with capacity 3, one pinned key and a fourth entry exactly one entry goes
\* and its texture id is queued, to be returned by the next
\* get_deleted_textures(); a queued id leaves the queue only by being returned.
C10_DistanceEviction ==
    [][ /\ \A key \in TexKeys :
              (next_texture_id' # next_texture_id /\ UploadTexture(key)) =>
                  LET before  == Append(tc_cache, [key |-> key,
                                        value |-> Texture(next_texture_id, key.path)])
                      victims == KeysOf(before) \ KeysOf(tc_cache')
                      d(k)    == get_distance(k, current_page_index)
                  IN  /\ \A v \in victims :
                            /\ v \notin tc_pinned_keys
                            /\ \A s \in KeysOf(tc_cache') \ tc_pinned_keys :
                                  \/ d(v) > d(s)
                                  \/ d(v) = d(s) /\ PositionOf(before, v) < PositionOf(before, s)
                      /\ (victims # {}) = (Len(before) > tc_max_size /\ ~(KeysOf(before) \subseteq tc_pinned_keys))
                      /\ (tc_max_size = 3 /\ Len(before) = 4 /\ Cardinality(tc_pinned_keys) = 1)
                            => \E v \in victims :
                                  /\ victims = {v}
                                  /\ tc_deleted_textures' =
                                         Append(tc_deleted_textures,
                                                before[PositionOf(before, v)].value.texture_id)
        /\ \A id \in Range(tc_deleted_textures) :
              id \in Range(tc_deleted_textures') \/ id \in Range(tc_returned')
      ]_vars

\* capacity 3, one pinned key, four uploads, one eviction, and two equally far
\* non-pinned keys were candidates: the older one went
C10_Witness ==
    /\ tc_max_size = 3
    /\ Len(tc_cache) = 3
    /\ Cardinality(tc_pinned_keys) = 1
    /\ Len(tc_deleted_textures) = 1
    /\ next_texture_id = 5
    /\ \E i \in 1..Len(tc_cache) :
          /\ tc_cache[i].key \notin tc_pinned_keys
          /\ \A j \in 1..Len(tc_cache) :
                get_distance(tc_cache[j].key, current_page_index)
                    <= get_distance(tc_cache[i].key, current_page_index)

\* =====================================================================
\*  Properties of the loader worker and of load_path
\* =====================================================================

\* the step delivers, to the generation check, a result of a loader older than
\* the one installed in the worker
StaleDelivery ==
    /\ Len(pool') = Len(pool) - 1
    /\ w_file_loader # 0
    /\ \E i \in 1..Len(pool), outcome \in {"image", "none", "error"} :
           /\ pool[i].loader_id < w_file_loader
           /\ DeliverResult(i, outcome)

\* C3: once a new FileLoader is installed in the worker, the delivery of a
\* finished or error result that carries the id of an earlier loader ends the
\* handler at once: L2 and L1 are as before, and neither image_loaded nor
\* error_occurred is emitted
C3_StaleResultDropped ==
    [][StaleDelivery =>
          /\ varsL2' = varsL2
          /\ varsL1' = varsL1
          /\ ui_events' = ui_events
          /\ w_emitted' = {}
          /\ w_pc' = "idle"]_vars

\* a result of loader 1 has just been dropped while loader 2 is installed and
\* L2 holds a page
C3_Witness ==
    /\ w_did.op = "dropped"
    /\ w_did.a > 0
    /\ w_did.a < w_file_loader
    /\ ic_cache # <<>>

\* C4: after load_path has cleared the caches for a path, L2 holds no bitmap
\* decoded from another path and L1 no texture built from such a bitmap
C4_NoInsertFromPreviousPath ==
    /\ \A i \in 1..Len(ic_cache) : ic_cache[i].value.src = current_file_path
    /\ \A i \in 1..Len(tc_cache) : tc_cache[i].value.src = current_file_path

\* the runnables process_next_task has started in this step
StartedNow == SubSeq(pool', Len(pool) + 1, Len(pool'))

\* C7: the tasks process_next_task dispatches in one call are the oldest of the
\* high lane, and tasks of the low lane, oldest first, only when the high
\* lane has been emptied
C7_DisplayLaneFirst ==
    [][(w_pnt_queued /\ ~w_pnt_queued' /\ ProcessNextTask) =>
          LET nh     == Len(w_high) - Len(w_high')
              nl     == Len(w_low) - Len(w_low')
              popped == SubSeq(w_high, 1, nh) \o SubSeq(w_low, 1, nl)
          IN  /\ nh >= 0 /\ nl >= 0
              /\ w_high' = SubSeq(w_high, nh + 1, Len(w_high))
              /\ w_low' = SubSeq(w_low, nl + 1, Len(w_low))
              /\ nl > 0 => w_high' = <<>>
              /\ StartedNow = [k \in 1..Len(popped) |->
                                  Runnable(popped[k].page_index, w_file_loader,
                                           popped[k].priority)]]_vars

\* process_next_task has just run with tasks in both lanes and took the task
\* of the high lane
C7_Witness ==
    /\ w_did.op = "process_next_task"
    /\ w_did.a > 0
    /\ w_did.b > 0
    /\ Len(w_low) = w_did.b
    /\ Len(w_high) = w_did.a - 1
    /\ pool # <<>>
    /\ pool[Len(pool)].priority = PRIORITY_DISPLAY

\* =====================================================================
\*  Properties of FileLoader.get_image_data
\* =====================================================================

\* the step is a pass of thread f through the loop of a Display fetch whose
\* entry is not in L3: the call itself, or the return of the wait
DisplayFetchPass(f) ==
    \/ /\ fetch[f].pc = "idle"
       /\ fetch'[f].pc # "idle"
       /\ \E entry \in Entries \ fl_cache : GetImageData(f, entry, PRIORITY_DISPLAY)
    \/ /\ fetch[f].pc = "waiting"
       /\ fetch[f].priority = PRIORITY_DISPLAY
       /\ fetch[f].entry \notin fl_cache
       /\ GetImageDataWoken(f)

\* C5: a Display fetch on an archive, while the extraction thread is running
\* and the entry is not in L3, waits: it neither returns nor goes on to the
\* fallback read of the archive
C5_DisplayFetchWaits ==
    [][\A f \in Fetchers :
          (fl_load_type = "archive" /\ et_status = "RUNNING" /\ DisplayFetchPass(f))
              => fetch'[f].pc = "waiting"]_vars

\* C6: a Prefetch fetch on an archive ends within the call, whatever the
\* extraction status: with the L3 bytes when the entry is there, with None
\* when it is not; it never waits and never reads the archive
C6_PrefetchNeverWaits ==
    [][\A f \in Fetchers, entry \in Entries :
          (/\ fetch[f].pc = "idle"
           /\ fetch'[f].pc # "idle"
           /\ fl_load_type = "archive"
           /\ GetImageData(f, entry, PRIORITY_PREFETCH))
              => /\ fetch'[f].pc = "done"
                 /\ fetch'[f].result = IF entry \in fl_cache THEN "l3" ELSE "none"
                 /\ fl_cache' = fl_cache]_vars

\* a Prefetch fetch has returned None for an entry that is not in L3 while
\* the extraction is running
C6_Witness ==
    \E f \in Fetchers :
        /\ fl_load_type = "archive"
        /\ fl_status = "RUNNING"
        /\ et_status = "RUNNING"
        /\ fetch[f].pc = "done"
        /\ fetch[f].priority = PRIORITY_PREFETCH
        /\ fetch[f].result = "none"
        /\ fetch[f].entry \notin fl_cache

\* =====================================================================
\*  Properties of the L2 order and of oversize inserts
\* =====================================================================

\* C11: a get(k) that hits makes k the last (most recently used) entry and
\* changes nothing else; an insert that stores removes, besides the old value
\* of its own key, only a run of the oldest entries, so the entries go in
\* least-recently-used order; the insert that follows a hit of k keeps k
\* unless every other entry went too
C11_GetPromotes ==
    [][ /\ \A key \in Pages :
              (ic_last'.op = "get" /\ HasKey(ic_cache, key) /\ ImageCacheGet(key)) =>
                  /\ ic_cache'[Len(ic_cache')].key = key
                  /\ DelKey(ic_cache', key) = DelKey(ic_cache, key)
                  /\ Len(ic_cache') = Len(ic_cache)
        /\ \A key \in Pages, size \in BitmapSizes :
              (ic_last'.op = "set" /\ ic_last'.ok /\ ImageCacheSet(key, Bitmap(1, size))) =>
                  LET others == DelKey(ic_cache, key)
                      kept   == Len(ic_cache') - 1
                  IN  /\ kept <= Len(others)
                      /\ ic_cache' = SubSeq(others, Len(others) - kept + 1, Len(others))
                                        \o <<[key |-> key, value |-> Bitmap(1, size)]>>
                      /\ (ic_last.op = "get" /\ ic_last.ok /\ ic_last.key # key) =>
                             \/ HasKey(ic_cache', ic_last.key)
                             \/ KeysOf(ic_cache') = {key}
      ]_vars

\* get(k) has just hit in a cache of two or more bitmaps that is full, so
\* that the next insert of another page has to evict
C11_Witness ==
    /\ ic_last.op = "get" /\ ic_last.ok
    /\ Len(ic_cache) >= 2
    /\ ic_cache[Len(ic_cache)].key = ic_last.key
    /\ ic_current_size = ic_max_size

\* C20: set(page, bitmap) with a bitmap larger than the capacity max_size
\* leaves the entries, their order and current_size as they are, does not
\* reach the page_cached emit and raises nothing
C20_OversizeIgnored ==
    [][\A key \in Pages, size \in BitmapSizes :
          (ic_last'.op = "set" /\ size > ic_max_size /\ ImageCacheSet(key, Bitmap(1, size))) =>
              /\ ic_cache' = ic_cache
              /\ ic_current_size' = ic_current_size
              /\ ic_max_size' = ic_max_size
              /\ ~ic_last'.ok
              /\ ic_raised' = ic_raised]_vars

\* an insert has just been refused, without an exception so far, by a cache
\* that holds two bitmaps
C20_Witness ==
    /\ ic_last.op = "set" /\ ~ic_last.ok
    /\ ~ic_raised
    /\ Len(ic_cache) >= 2

\* =====================================================================
\*  Properties of the prefetcher
\* =====================================================================

\* the window the pages are claimed to form: the union, over the base pages
\* b, of the integers from max(0, b - R) to min(N - 1, b + R)
ClaimedWindow(p, R, N, spread) ==
    LET base == IF spread THEN {p, p + 1} \cap (0..(N - 1)) ELSE {p}
    IN  UNION {Max(0, b - R)..Min(N - 1, b + R) : b \in base}

\* C13: for a current page p of a list of N >= 1 pages and a radius R >= 0,
\* _calculate_pages_for_prefetch(p, R, N - 1, spread) returns the claimed
\* window as a strictly increasing list, all of whose members are pages of
\* the list
C13_PrefetchWindow ==
    calc.done =>
        LET r == calc.result
        IN  /\ Range(r) = ClaimedWindow(calc.current_index, calc.distance,
                                        calc.max_index + 1, calc.is_spread)
            /\ \A i \in 1..(Len(r) - 1) : r[i] < r[i + 1]
            /\ \A i \in 1..Len(r) : 0 <= r[i] /\ r[i] <= calc.max_index
            /\ Len(r) = Cardinality(Range(r))

\* a call in spread mode whose two ranges overlap and are cut at both ends
\* of the list
C13_Witness ==
    /\ calc.done
    /\ calc.is_spread
    /\ calc.current_index + 1 <= calc.max_index
    /\ calc.distance >= 1
    /\ calc.current_index - calc.distance < 0
    /\ calc.current_index + 1 + calc.distance > calc.max_index
    /\ Len(calc.result) = calc.max_index + 1


\* =====================================================================
\*  Properties of navigation and of load_path
\* =====================================================================

\* the texture keys of the pages drawn, left one first
Displayed(pages) == [i \in 1..Len(pages) |-> TexKey(current_file_path, pages[i])]

\* a forward step from page 4 of at least eight, in spread view with the
\* first page paired
ForwardFromFour ==
    /\ current_page_index = 4
    /\ is_spread_view /\ ~spread_view_first_page_single
    /\ total_pages >= 8
    /\ Navigate(1)

\* C17 (as claimed): in spread view with spread_view_first_page_single false
\* and current page 4, a forward step sets the current page to 6 and the
\* displayed pages to [5, 6] with binding left, [6, 5] with binding right.
C17_SpreadStepAsClaimed ==
    [][ForwardFromFour =>
         /\ current_page_index' = 6
         /\ display_keys' = IF binding_direction = "left" THEN Displayed(<<5, 6>>)
                            ELSE Displayed(<<6, 5>>)]_vars

\* C17 (amended): the same step sets the current page to 6 and the displayed
\* pages to the pair that starts at 6: [6, 7] with binding left, [7, 6] with
\* binding right.
C17_SpreadStep ==
    [][ForwardFromFour =>
         /\ current_page_index' = 6
         /\ display_keys' = IF binding_direction = "left" THEN Displayed(<<6, 7>>)
                            ELSE Displayed(<<7, 6>>)]_vars

\* page 6 reached by forward steps in spread view, drawn with binding right
C17_Witness ==
    /\ is_spread_view /\ ~spread_view_first_page_single
    /\ binding_direction = "right"
    /\ ui_pc = "idle" /\ is_content_loaded
    /\ current_page_index = 6
    /\ display_keys = Displayed(<<7, 6>>)

\* load_path returns from a path that does not exist
NotFoundReturn ==
    /\ ui_pc = "creating"
    /\ ~PathExists(current_file_path)
    /\ LoadPathCreate

\* C18 (as claimed): load_path on a path that does not exist shows the error
\* dialog and returns with _is_loading false and with the file list,
\* is_content_loaded, the current page, current_file_path, the installed
\* FileLoader, L2 and L1 as they were when it was called.
C18_NotFoundLeavesContent ==
    [][NotFoundReturn =>
         /\ error_dialog_count' = error_dialog_count + 1
         /\ ~is_loading'
         /\ total_pages' = before_load.total_pages
         /\ is_content_loaded' = before_load.is_content_loaded
         /\ current_page_index' = before_load.current_page_index
         /\ current_file_path' = before_load.current_file_path
         /\ app_file_loader' = before_load.file_loader
         /\ ic_cache' = before_load.image_cache
         /\ tc_cache' = before_load.texture_cache]_vars

\* load_path returns after it installed the loader of a non-empty image list
LoadedReturn == ui_pc = "emitting" /\ LoadPathFinish

\* load_path returns from a path without images
EmptyReturn ==
    /\ ui_pc = "creating"
    /\ PathExists(current_file_path) /\ ImageCount(current_file_path) = 0
    /\ LoadPathCreate

\* the L2 entries decoded from the path that was open when load_path was called
OfPreviousPath(c) ==
    SelectSeq(c, LAMBDA e : /\ e.value.src = before_load.current_file_path
                            /\ before_load.current_file_path # before_load.path)

\* C19 (as claimed): a load_path(path, page) with a non-empty image list
\* returns with current_file_path = path, the image list installed
\* (is_content_loaded true), the current page the requested one, no L2 entry
\* of the previous path, and file_loader_updated emitted exactly once, with
\* the new loader; with an empty image list it returns with no loader
\* installed and file_loader_updated not emitted.
C19_LoadInstallsContent ==
    [][/\ LoadedReturn =>
            /\ current_file_path' = before_load.path
            /\ total_pages' = ImageCount(before_load.path)
            /\ is_content_loaded'
            /\ current_page_index' = before_load.page
            /\ OfPreviousPath(ic_cache') = <<>>
            /\ file_loader_updated_count' = before_load.file_loader_updated_count + 1
            /\ w_file_loader' = app_file_loader'
            /\ PathOf(app_file_loader') = before_load.path
       /\ EmptyReturn =>
            /\ app_file_loader' = 0
            /\ file_loader_updated_count' = before_load.file_loader_updated_count]_vars


\* =====================================================================
\*  Properties of the cold open
\* =====================================================================

\* C15 (as claimed): after a cold open of a folder and display(0), whatever
\* the number of decode workers and the interleaving of display and prefetch
\* requests, the first texture_prepared signal emitted is the one for page 0.
C15_FirstTextureIsPageZero == first_prepared = -1 \/ first_prepared = 0

\* L2 holds exactly the pages within the CPU radius of page 0 and L1 exactly
\* the textures of the pages within the GPU radius of page 0
ColdFilled ==
    LET last == ImageCount("F") - 1
    IN  /\ KeysOf(ic_cache) = 0..Min(last, ColdCpuRadius)
        /\ KeysOf(tc_cache) = {[path |-> "F", page |-> p] : p \in 0..Min(last, ColdGpuRadius)}

\* C14: a folder opened cold in single view at page 0, with room for every
\* page of the two windows and no navigation, reaches under fair scheduling
\* of the prefetcher, the decode workers and the frames a state in which L2
\* holds exactly the pages 0..CPU radius and L1 exactly the textures of the
\* pages 0..GPU radius
C14_ColdOpenFills == <>ColdFilled

\* the filled state with every queue drained: nothing is left to do
C14_Witness ==
    /\ ColdFilled
    /\ pf_inbox = <<>> /\ w_inbox = <<>> /\ pool = <<>>
    /\ ui_events = <<>> /\ prepare_queue = <<>>
    /\ w_low = <<>> /\ w_high = <<>>
    /\ first_prepared = 0


\* =====================================================================
\*  Properties of a change of the prefetch settings
\* =====================================================================

\* the prefetcher handles update_prefetch_settings while content is loaded
SettingsPass ==
    /\ pf_inbox # <<>>
    /\ Head(pf_inbox).slot = "update_prefetch_settings"
    /\ pf_inbox' = Tail(pf_inbox)
    /\ is_content_loaded

\* L1 after the pass holds only pages within the new GPU radius
C16_OnlyWindow ==
    LET gpu == Head(pf_inbox).gpu
    IN  \A k \in KeysOf(tc_cache') :
            /\ PageIndexOf(k) >= current_page_index - gpu
            /\ PageIndexOf(k) <= current_page_index + gpu

\* the capacity of L1 after the pass is the one of the new GPU radius
C16_CapacityFollows == tc_max_size' = 2 * Head(pf_inbox).gpu + 2

\* the ids of the textures the pass removed are in the list that the next
\* get_deleted_textures() returns
C16_IdsReturned ==
    \A i \in 1..Len(tc_cache) :
        tc_cache[i].key \notin KeysOf(tc_cache') =>
            tc_cache[i].value.texture_id \in Range(tc_deleted_textures')

\* C16 (as claimed): once gpu_max_prefetch_pages has been changed and the
\* prefetcher pass triggered by the change has run, L1 holds only keys of the
\* pages within the new radius of the current page, the capacity max_size
\* of L1 has been reduced to match the new radius, and the texture ids of
\* the removed entries are returned by the next get_deleted_textures()
C16_SettingsShrinkL1 ==
    [][SettingsPass => (C16_OnlyWindow /\ C16_CapacityFollows /\ C16_IdsReturned)]_vars


\* =====================================================================
\*  Properties of a repeated on_page_index_changed
\* =====================================================================

\* the prefetcher runs a call that repeats the last one
RepeatPass ==
    /\ pf_inbox # <<>>
    /\ IsRepeat
    /\ pf_inbox' = Tail(pf_inbox)

\* the loader thread handles a request emitted by a repeated call
RepeatHandled ==
    /\ w_pc = "idle"
    /\ w_inbox # <<>>
    /\ Head(w_inbox).repeat
    /\ w_inbox' = Tail(w_inbox)

\* the repeated call itself inserts and evicts nothing
C12_PassKeepsCaches ==
    /\ ic_cache' = ic_cache
    /\ tc_cache' = tc_cache
    /\ tc_deleted_textures' = tc_deleted_textures

\* no decode task is queued or started for a request of the repeated call
C12_NoNewTask ==
    /\ w_high' = w_high
    /\ w_low' = w_low
    /\ w_processing' = w_processing

\* a request of the repeated call does not reach _on_image_decoded, which
\* stores the page in L2 again and emits image_loaded for prepare_texture
C12_NoPreparation == w_pc' = "idle"

\* C12 (as claimed): a second on_page_index_changed(p, s) that follows the
\* first with L2, L1, the lanes and the in-flight set unchanged in between
\* causes nothing new: it inserts and evicts no cache entry itself, and the
\* requests it emits queue no decode task, prepare no texture and re-insert
\* no cache entry
C12_SecondCallNothingNew ==
    [][ /\ RepeatPass => C12_PassKeepsCaches
        /\ RepeatHandled => (C12_NoNewTask /\ C12_NoPreparation)
      ]_vars


\* =====================================================================
\*  Properties of the display request and of the lanes
\* =====================================================================

\* load_path reaches update_view, which calls displayImage
DisplayCall == ui_pc = "emitting" /\ ui_pc' = "idle"

\* the displayed pages for which displayImage's request is accepted: no
\* texture in L1, no bitmap in L2, not in flight
RequestedForDisplay ==
    {PageIndexOf(k) : k \in {d \in Range(display_keys') : ~HasKey(tc_cache, d)}}
        \ (KeysOf(ic_cache) \cup w_processing')

\* C21 (as claimed): the load request that displayImage issues for a page
\* without texture and bitmap is accepted into the high (Display) lane
C21_DisplayRequestInHighLane ==
    [][DisplayCall => \A p \in RequestedForDisplay : in_queue(w_high', p)]_vars

\* the decode jobs of the loader installed in the worker that were submitted
\* to the pool and whose result is not delivered yet
CurrentJobs == SelectSeq(pool, LAMBDA r : r.loader_id = w_file_loader)

\* the pages of both lanes and of those jobs, one entry per task
TaskPages ==
    [i \in 1..Len(w_high) |-> w_high[i].page_index]
        \o [i \in 1..Len(w_low) |-> w_low[i].page_index]
        \o [i \in 1..Len(CurrentJobs) |-> CurrentJobs[i].index]

\* C22 (as claimed): no page index occurs more than once among the high
\* lane, the low lane and the decode jobs of the current loader that are
\* submitted and not delivered, also after a FileLoader was replaced and
\* results of the old one arrive late
C22_NoDuplicateTask ==
    \A i, j \in 1..Len(TaskPages) : i # j => TaskPages[i] # TaskPages[j]

\* C23 (as claimed): the decode jobs submitted to the thread pool and not
\* yet finished are at most max(1, parallel_decoding_workers), also right
\* after a FileLoader was replaced while jobs of the old one still run
C23_JobsWithinWorkers == Len(pool) <= max_workers


\* =====================================================================
\*  Properties of the end of the extraction
\* =====================================================================

\* the extraction thread has ended and its final status has been set on the
\* FileLoader
ExtractionEnded ==
    /\ et_pc = "finished"
    /\ et_finished_queued = "none"
    /\ fl_status \in {"COMPLETED", "CANCELLED"}

\* C24 (as claimed): under fair scheduling a fetch that waits on the L3
\* condition when the extraction has ended, Completed or Cancelled, without
\* the awaited entry, is woken and stops waiting
C24_WaiterReleased ==
    \A f \in Fetchers :
        (fetch[f].pc = "waiting" /\ ExtractionEnded) ~> (fetch[f].pc # "waiting")


\* =====================================================================
\*  Properties of the textures: page_cached, frames, texture_prepared
\* =====================================================================

\* _on_image_decoded has just stored page k in L2 (page_cached emitted) and
\* emitted image_loaded
InsertedIntoL2(k) ==
    /\ w_emitted = {"image_loaded"}
    /\ ui_events # <<>>
    /\ ui_events[Len(ui_events)].index = k
    /\ ui_events[Len(ui_events)].cached
    /\ HasKey(ic_cache, k)

\* the texture of page k of the open folder is queued for upload or in L1
UploadQueuedOrDone(k) ==
    LET key == TexKey(PathOf(app_file_loader), k)
    IN  HasKey(prepare_queue, key) \/ HasKey(tc_cache, key)

FrameUploads == next_texture_id' # next_texture_id

\* the keys a step has put into L1
InsertedIntoL1 == KeysOf(tc_cache') \ KeysOf(tc_cache)

\* C26 (as claimed): a frame inserts into L1 only textures whose key is, when
\* the frame uploads, in display_keys or of a page in the published
\* gpu_prefetch_range
C26_UploadsWithinRange ==
    [][FrameUploads =>
          \A key \in InsertedIntoL1 :
              \/ key \in Range(display_keys)
              \/ PageIndexOf(key) \in gpu_prefetch_range]_vars

\* C27 (as claimed): a frame emits texture_prepared(key) only for a key that
\* its upload has put into L1 and that is resident when the signal is
\* emitted; an upload that failed, or whose entry was evicted at once, emits
\* nothing
C27_PreparedMeansResident ==
    [][\A gl \in GlOutcomes :
          (prepare_queue # <<>> /\ Frame(gl)) =>
              LET r == prepare_each(prepare_queue, PaintState, gl)
              IN  \A i \in 1..Len(r.resident) : r.resident[i]]_vars

\* C28 (as claimed): once displayImage has set display_keys, in every state
\* the pinned keys of L1 are the displayed keys resident in L1, whether the
\* texture was uploaded before or after displayImage
C28_PinnedAreDisplayedResident ==
    (ui_pc = "idle" /\ display_keys # <<>>) =>
        tc_pinned_keys = Range(display_keys) \cap KeysOf(tc_cache)


\* =====================================================================
\*  Properties of the progress of the loader thread
\* =====================================================================

\* page p waits in a lane of the worker
InLane(p) == in_queue(w_high, p) \/ in_queue(w_low, p)

\* process_next_task has just submitted a job of the current loader for page p
JobSubmitted(p) ==
    /\ p \in w_processing'
    /\ \E i \in 1..Len(pool') :
          /\ i > Len(pool)
          /\ pool'[i].index = p
          /\ pool'[i].loader_id = w_file_loader

\* _on_image_decoded runs with a result that carries no bitmap
DecodeFailed == w_pc = "decoded" /\ w_cur.image = "none" /\ w_pc' = "idle"

C30_GpuRadiusWithinCpu == gpu_max_prefetch_pages <= cpu_max_prefetch_pages


\* =====================================================================
\*  Properties of the L2 capacity and byte count
\* =====================================================================

\* a step that is one ImageCache.set_max_size(mb) call
SetMaxSizeReturned(mb) ==
    /\ ImageCacheSetMaxSize(mb)
    /\ UNCHANGED <<varsL1, pin_requested, varsLoader, varsApp>>

\* C31 (as claimed): after set_max_size(mb) returns, max_size is mb * 2^20
\* bytes and the bytes cached are at most that capacity, with and without
\* dynamic_cache_resizing
C31_SetMaxSizeSetsCapacity ==
    [][\A mb \in 0..MaxCacheMB :
          SetMaxSizeReturned(mb) =>
              /\ ic_max_size' = mb * BytesPerMB
              /\ SumSizes(ic_cache') <= mb * BytesPerMB]_vars


\* C36: in every state reached by set (of a new key and of a cached key, with
\* and without evictions), evict_outside_range, __delitem__, clear,
\* set_max_size and adjust_cache_size, current_size is the sum of the byte
\* sizes of the bitmaps stored, and it is not negative
C36_CurrentSizeIsSum ==
    /\ ic_current_size = SumSizes(ic_cache)
    /\ ic_current_size >= 0

\* a set that replaced the bitmap of a cached key by one of another size
\* while another page stayed cached
C36_Witness ==
    /\ ic_last.op = "set"
    /\ ic_last.ok
    /\ Len(ic_cache) >= 2
    /\ ic_cache[Len(ic_cache)].key = ic_last.key
    /\ ic_cache[Len(ic_cache)].value.size = BytesPerMB
    /\ ic_current_size = BytesPerMB + BytesPerMB \div 2

\* the texture ids the entries of an L1 cache hold
IdsOf(c) == {c[i].value.texture_id : i \in 1..Len(c)}

\* a list without a repeated element
NoRepeat(q) == \A i, j \in 1..Len(q) : q[i] = q[j] => i = j

\* the pending-deletion list after the step begins with the list before it
DeletedExtended ==
    /\ Len(tc_deleted_textures') >= Len(tc_deleted_textures)
    /\ SubSeq(tc_deleted_textures', 1, Len(tc_deleted_textures)) = tc_deleted_textures

\* the ids the step put on the pending-deletion list
DeletedAppended ==
    SubSeq(tc_deleted_textures', Len(tc_deleted_textures) + 1, Len(tc_deleted_textures'))

\* the id the step handed to TextureCache.set, if it is such a step
StoredNow == IF next_texture_id' # next_texture_id THEN {next_texture_id} ELSE {}

\* C37 (as claimed): every texture id stored in L1 is held by exactly one
\* entry, or was put on the pending-deletion list exactly once: no id is held
\* twice, listed twice, or both held and listed; every id that leaves the
\* cache in a step (set of a new key, set of a resident key, capacity
\* eviction, evict_outside_range, clear) is put on the list once in that step
\* and nothing else is; the list changes otherwise only by
\* get_deleted_textures, which returns it and leaves it empty
C37_EveryIdHeldOrDeletedOnce ==
    /\ [](/\ Len(tc_cache) = Cardinality(IdsOf(tc_cache))
          /\ NoRepeat(tc_deleted_textures)
          /\ IdsOf(tc_cache) \cap Range(tc_deleted_textures) = {})
    /\ [][IF DeletedExtended
          THEN /\ Range(DeletedAppended) = (IdsOf(tc_cache) \cup StoredNow) \ IdsOf(tc_cache')
               /\ NoRepeat(DeletedAppended)
          ELSE /\ tc_deleted_textures' = <<>>
               /\ tc_returned' = tc_deleted_textures
               /\ IdsOf(tc_cache') = IdsOf(tc_cache)]_vars

\* =====================================================================
\*  Properties of the extraction thread
\* =====================================================================

\* the current page lies in folder f
ContainsPage(f) ==
    /\ folder_start(et_folder_indices, f) <= et_current_page
    /\ et_current_page <= folder_end(et_folder_indices, et_total_files, f)

\* |folder_start - current_page| of folder f
StartDistance(f) == Abs(folder_start(et_folder_indices, f) - et_current_page)

\* C32: _find_closest_folder_index returns the unextracted folder that
\* contains the current page if there is one; else the unextracted folder
\* with the least |folder_start - current_page|, the one of the smallest start
\* among those at the same distance; and None exactly when no folder is
\* unextracted
C32_ClosestFolder ==
    et_did.op = "_find_closest_folder_index" =>
        LET U == Range(et_unextracted)
            r == et_target
        IN  /\ (r = NoFolder) <=> (U = {})
            /\ U # {} =>
                 /\ r \in U
                 /\ IF \E f \in U : ContainsPage(f)
                    THEN ContainsPage(r)
                    ELSE \A g \in U :
                            \/ StartDistance(r) < StartDistance(g)
                            \/ /\ StartDistance(r) = StartDistance(g)
                               /\ folder_start(et_folder_indices, r)
                                     <= folder_start(et_folder_indices, g)

\* the folder of the current page is extracted and two unextracted folders
\* start at the same distance of it: the tie was decided
C32_Witness ==
    /\ et_did.op = "_find_closest_folder_index"
    /\ ~ \E f \in Range(et_unextracted) : ContainsPage(f)
    /\ \E f, g \in Range(et_unextracted) :
          /\ f # g
          /\ StartDistance(f) = StartDistance(g)
          /\ \A h \in Range(et_unextracted) : StartDistance(f) <= StartDistance(h)
    /\ et_target \in Range(et_unextracted)


\* a step of run() that visits a member of the chosen folder
MemberStep == et_attempted' # et_attempted

\* the members visited since the folder was chosen
VisitedInFolder ==
    LET all == files_in_folder(et_folder_indices, et_total_files, et_target)
        n   == Len(all) - Len(et_files)
    IN  SubSeq(et_attempted, Len(et_attempted) - n + 1, Len(et_attempted))

\* C33: once a folder is chosen its members are visited in the order of the
\* file list; after every insertion into L3 every thread waiting on the L3
\* condition is woken; no other folder is started before every member of the
\* chosen one was visited, whatever update_current_page is called with in the
\* meantime: a page change leaves the chosen folder and its remaining files
\* as they are
C33_FolderInOrder ==
    /\ [](et_target # NoFolder =>
            /\ Len(et_files) <= Len(files_in_folder(et_folder_indices, et_total_files,
                                                    et_target))
            /\ VisitedInFolder \o et_files
                  = files_in_folder(et_folder_indices, et_total_files, et_target))
    /\ [][MemberStep =>
            /\ et_attempted' = Append(et_attempted, Head(et_files))
            /\ fl_cache' # fl_cache =>
                  \A f \in Fetchers : fetch[f].pc = "waiting" => fetch'[f].woken]_vars
    /\ [][(et_target # NoFolder /\ et_target' # et_target) => et_files = <<>>]_vars
    /\ [][et_current_page' # et_current_page =>
            UNCHANGED <<et_target, et_files, et_unextracted, et_attempted>>]_vars

\* an insertion woke two waiting threads in the middle of a folder that does
\* not hold the current page any more
C33_Witness ==
    /\ et_did.op = "data"
    /\ et_did.woke = Fetchers
    /\ \A f \in Fetchers : fetch[f].pc = "waiting" /\ fetch[f].woken
    /\ et_files # <<>>
    /\ ~ContainsPage(et_target)
    /\ \E g \in Range(et_unextracted) : ContainsPage(g)

\* the files of the archive
ArchiveFiles == 0..(et_total_files - 1)

\* C34: run() comes to its end; when it reports COMPLETED every member of
\* every folder was visited exactly once, whether it was found in L3, read,
\* empty or its read raised; without a stop it reports COMPLETED; after a stop
\* no further member is visited and it reports CANCELLED
C34_RunTerminates ==
    /\ <>(et_pc = "finished")
    /\ [](et_pc = "finished" =>
            /\ et_status = (IF et_running THEN "COMPLETED" ELSE "CANCELLED")
            /\ et_finished_queued # "none" => et_finished_queued = et_status
            /\ et_running =>
                  /\ Len(et_attempted) = et_total_files
                  /\ Range(et_attempted) = ArchiveFiles
                  /\ et_unextracted = <<>>)
    /\ [][~et_running => et_attempted' = et_attempted]_vars

\* a run that ended COMPLETED although a read raised, a read was empty and a
\* member was found in L3
C34_Witness ==
    /\ et_pc = "finished"
    /\ et_status = "COMPLETED"
    /\ Len(et_attempted) = et_total_files
    /\ Len(et_folder_indices) > 1
    /\ fl_cache # ArchiveFiles
    /\ fl_cache # {}


\* =====================================================================
\*  Properties of the shutdown
\* =====================================================================

\* the place of a call in a list of calls, 0 when it is not in it
PlaceOf(calls, name) ==
    IF \E i \in 1..Len(calls) : calls[i] = name
    THEN CHOOSE i \in 1..Len(calls) : calls[i] = name
    ELSE 0

\* in a list of calls, name a comes before name b whenever both are made
Before(calls, a, b) ==
    (PlaceOf(calls, a) # 0 /\ PlaceOf(calls, b) # 0) => PlaceOf(calls, a) < PlaceOf(calls, b)

\* the calls the cleanup_threads call of this step made
CallsMade == SubSeq(tm_log', Len(tm_log) + 1, Len(tm_log'))

\* a step that is a cleanup_threads call
CleanupStep == tm_cleanups' = tm_cleanups + 1

\* C35: a cleanup_threads call stops the prefetcher worker and waits for its
\* thread before it stops the image loader worker, and stops the image loader
\* worker and waits for its thread before it stops the extraction thread; it
\* stops a worker whose thread runs; a call after the first makes no stop and
\* no wait
C35_ShutdownOrder ==
    [][CleanupStep =>
         /\ Before(CallsMade, "prefetcher_worker.stop", "prefetcher_thread.wait")
         /\ Before(CallsMade, "prefetcher_thread.wait", "image_loader_worker.stop")
         /\ Before(CallsMade, "image_loader_worker.stop", "image_loader_thread.wait")
         /\ Before(CallsMade, "image_loader_thread.wait", "extraction_thread.stop")
         /\ Before(CallsMade, "prefetcher_thread.wait", "extraction_thread.stop")
         /\ isRunning(tm_prefetcher_thread) => PlaceOf(CallsMade, "prefetcher_worker.stop") = 1
         /\ isRunning(tm_image_loader_thread)
               => PlaceOf(CallsMade, "image_loader_worker.stop") # 0
         /\ (tm_extraction_thread # "None" /\ extraction_isRunning)
               => PlaceOf(CallsMade, "extraction_thread.stop") # 0
         /\ tm_cleanups >= 1 =>
               /\ CallsMade = <<>>
               /\ UNCHANGED <<pf_is_running, w_running, et_running, et_pc>>]_vars

\* a second cleanup_threads call was made after a first that stopped all three
C35_Witness ==
    /\ tm_cleanups = 2
    /\ tm_log = <<"prefetcher_worker.stop", "prefetcher_thread.wait",
                  "image_loader_worker.stop", "image_loader_thread.wait",
                  "extraction_thread.stop", "extraction_thread.wait">>
    /\ ~pf_is_running
    /\ ~w_running
    /\ ~et_running

\* =====================================================================
\*  Properties of the archive reader
\* =====================================================================

\* the threads inside reader.read_file: decode threads, and 0 for the extractor
InReadFile ==
    {f \in Fetchers : fetch[f].pc = "reading"} \cup (IF et_pc = "reading" THEN {0} ELSE {})

\* C38: at no time are two threads inside read_file of the FileLoader's one
\* reader: the reads of the extraction thread and the fallback reads of the
\* decode threads in get_image_data never overlap
C38_ReadsNeverOverlap == Cardinality(InReadFile) <= 1

\* =====================================================================
\*  Properties of the page index
\* =====================================================================

\* C39: whenever content is loaded the current page index is a page of the
\* content, 0 <= current_page_index < number of pages, after any sequence of
\* load_path(path, page), jump_to_page, _navigate and navigate_single_page
C39_PageIndexInRange ==
    is_content_loaded => 0 <= current_page_index /\ current_page_index < total_pages

\* =====================================================================
\*  Properties of a prefetch sweep on L2
\* =====================================================================

\* the prefetcher runs a queued slot, which ends in _do_prefetch, on content
PrefetchSweep ==
    /\ pf_inbox # <<>>
    /\ pf_inbox' = Tail(pf_inbox)
    /\ pf_is_running
    /\ is_content_loaded

\* C40: a prefetch sweep only reads L2: after it L2 holds the same pages in
\* the same least-recently-used order as before, so the entry the next
\* forced eviction removes is the same
C40_SweepKeepsL2 == [][PrefetchSweep => ic_cache' = ic_cache]_vars

=============================================================================
